---- MODULE Spec2Model ----
(***************************************************************************)
(* A model of pypandoc_hwpx.PandocToHwpx: the converter object's fields,   *)
(* the property resolvers, the inline walker, the table layout and the     *)
(* list handlers.  The header.xml tree is modelled by the elements the     *)
(* code looks up in it: the charPr, paraPr and borderFill elements in      *)
(* document order, whether each collection container exists, and the       *)
(* style table.                                                            *)
(***************************************************************************)
EXTENDS Integers, Sequences, FiniteSets, TLC

VARIABLES self, pre, hist, peer

vars == <<self, pre, hist, peer>>

\* ------------------------------------------------------------------------
\* Bounds of the model.
MaxCalls == 3
MaxRows == 2
MaxCols == 2

\* ------------------------------------------------------------------------
\* Python values.  None is the empty tuple and a present value x is <<x>>,
\* so that None, 0 and "" stay three different values as they are in a
\* dict key.
None == <<>>

Some(x) == <<x>>

\* Python truthiness of an optional number (None and 0 are falsy).
TruthyN(v) == v # None /\ v[1] # 0

\* Python truthiness of an optional string (None and "" are falsy).
TruthyS(v) == v # None /\ v[1] # ""

\* str() of an integer: its decimal rendering.
str(n) == ToString(n)

\* The integers that occur as ids in the model.
IdRange == 0 .. 40

\* int() of an id attribute: the number whose decimal rendering it is.
int(s) == CHOOSE n \in IdRange : ToString(n) = s

Min(S) == CHOOSE x \in S : \A y \in S : x <= y

\* Element.find with an [@id="..."] predicate: the first element, in
\* document order, whose id attribute is the given text; None if there is none.
find(elems, id) ==
    LET hits == {i \in DOMAIN elems : elems[i].id = id}
    IN  IF hits = {} THEN None ELSE Some(elems[Min(hits)])

\* The id of the last element instead of the greatest one.
max_id_last(elems, max) ==
    IF elems = <<>> THEN max ELSE int(elems[Len(elems)].id)

\* for e in findall(...): n = int(e.get('id', 0)); if n > max: max = n
\* starting from max = 0.
RECURSIVE max_id(_, _)
max_id(elems, max) ==
    IF elems = <<>> THEN max
    ELSE LET n == int(Head(elems).id)
         IN  max_id(Tail(elems), IF n > max THEN n ELSE max)

\* ------------------------------------------------------------------------
\* Template header.xml documents.

BLACK == "#000000"
RED == "#FF0000"
BLUE == "#0000FF"

\* A hh:charPr element: its id, textColor and height attributes and its
\* bold, italic, underline, strikeout, supscript and subscript children.
CharPr(id, bold, underline, supscript, subscript) ==
    [id |-> id, textColor |-> BLACK, height |-> "1000",
     bold |-> bold, italic |-> FALSE,
     underline |-> underline,
     strikeout |-> Some([shape |-> "NONE", color |-> BLACK]),
     supscript |-> supscript, subscript |-> subscript]

NoUnderline == Some([type |-> "NONE", shape |-> "SOLID", color |-> BLACK])

BlueUnderline == Some([type |-> "BOTTOM", shape |-> "DASH", color |-> BLUE])

\* A hh:paraPr element: its id and the margins of the hp:switch's hp:case
\* and hp:default branches (None when the branch has no hh:margin with
\* hc:intent and hc:left).
ParaPr(id, caseMargin, defaultMargin) ==
    [id |-> id, caseMargin |-> caseMargin, defaultMargin |-> defaultMargin]

Margin(intent, left) == Some([intent |-> intent, left |-> left])

\* A hh:style element.
Style(name, id, paraPrIDRef) ==
    [name |-> name, id |-> id, paraPrIDRef |-> paraPrIDRef]

\* The itemCnt attributes of the three collection containers (None for a
\* container without the attribute or an absent container).
ItemCnt(charProperties, paraProperties, borderFills) ==
    [charProperties |-> charProperties, paraProperties |-> paraProperties,
     borderFills |-> borderFills]

\* How many of the hh:charPr, hh:paraPr and hh:borderFill elements are not
\* children of their collection container.
Stray(charPr, paraPr, borderFill) ==
    [charPr |-> charPr, paraPr |-> paraPr, borderFill |-> borderFill]

\* In every header, numbering is the sequence of its hh:numbering elements
\* (the numbering definitions); no method of the converter reads or writes
\* them.

\* header_xml_content is None: no tree is built.
NoHeader ==
    [given |-> FALSE, loaded |-> FALSE,
     charPr |-> <<>>, charProperties |-> FALSE,
     paraPr |-> <<>>, paraProperties |-> FALSE,
     borderFill |-> <<>>, borderFills |-> FALSE,
     style |-> <<>>, numbering |-> <<>>,
     stray |-> Stray(0, 0, 0), itemCnt |-> ItemCnt(None, None, None)]

\* header_xml_content is text that ET.fromstring rejects: the exception is
\* caught and no tree is built.
Unparsable == [NoHeader EXCEPT !.given = TRUE]

\* A complete template: record 0 is plain, record 1 is bold with a blue
\* underline and a subscript marker, record 5 carries a superscript marker.
FullHeader ==
    [given |-> TRUE, loaded |-> TRUE,
     charPr |-> <<CharPr("0", FALSE, NoUnderline, FALSE, FALSE),
                  CharPr("1", TRUE, BlueUnderline, FALSE, TRUE),
                  CharPr("5", FALSE, None, TRUE, FALSE)>>,
     charProperties |-> TRUE,
     paraPr |-> <<ParaPr("0", None, None),
                  ParaPr("3", Margin("0", "0"), Margin("0", "0")),
                  ParaPr("4", None, None)>>,
     paraProperties |-> TRUE,
     borderFill |-> <<[id |-> "1"], [id |-> "2"]>>, borderFills |-> TRUE,
     style |-> <<Style("Normal", "0", "3"), Style("Outline 1", "1", "4")>>,
     numbering |-> <<[id |-> "1"]>>,
     stray |-> Stray(0, 0, 0),
     itemCnt |-> ItemCnt(Some("3"), Some("3"), Some("2"))]

\* A template without character property 0, whose Normal style names a
\* paragraph property that does not exist (and there is no paragraph
\* property 0 either).  Its containers carry itemCnt values that do not
\* match their contents, or none.
NoZeroHeader ==
    [given |-> TRUE, loaded |-> TRUE,
     charPr |-> <<CharPr("1", TRUE, BlueUnderline, FALSE, TRUE),
                  CharPr("2", FALSE, None, TRUE, FALSE)>>,
     charProperties |-> TRUE,
     paraPr |-> <<ParaPr("2", None, None)>>,
     paraProperties |-> TRUE,
     borderFill |-> <<[id |-> "3"]>>, borderFills |-> TRUE,
     style |-> <<Style("Normal", "2", "6")>>,
     numbering |-> <<[id |-> "1"], [id |-> "2"]>>,
     stray |-> Stray(0, 0, 0),
     itemCnt |-> ItemCnt(Some("7"), None, Some("0"))]

\* A template whose elements are not in id order, whose style table names
\* Normal twice (the last one wins) and whose Normal style names an absent
\* paragraph property while paragraph property 0 exists.
FallbackHeader ==
    [given |-> TRUE, loaded |-> TRUE,
     charPr |-> <<CharPr("3", FALSE, NoUnderline, TRUE, FALSE),
                  CharPr("0", FALSE, NoUnderline, FALSE, TRUE)>>,
     charProperties |-> TRUE,
     paraPr |-> <<ParaPr("2", None, None),
                  ParaPr("0", Margin("0", "0"), None)>>,
     paraProperties |-> TRUE,
     borderFill |-> <<>>, borderFills |-> TRUE,
     style |-> <<Style("Normal", "1", "2"), Style("Normal", "4", "7")>>,
     numbering |-> <<>>,
     stray |-> Stray(0, 0, 0),
     itemCnt |-> ItemCnt(Some("2"), Some("2"), Some("0"))]

\* A template whose property elements are not inside the collection
\* containers (no hh:charProperties, hh:paraProperties, hh:borderFills)
\* and that has no Normal style.
NoContainerHeader ==
    [given |-> TRUE, loaded |-> TRUE,
     charPr |-> <<CharPr("0", FALSE, NoUnderline, FALSE, FALSE),
                  CharPr("1", FALSE, None, FALSE, TRUE)>>,
     charProperties |-> FALSE,
     paraPr |-> <<ParaPr("0", None, None), ParaPr("1", None, None)>>,
     paraProperties |-> FALSE,
     borderFill |-> <<[id |-> "2"]>>, borderFills |-> FALSE,
     style |-> <<Style("Body", "0", "1")>>, numbering |-> <<[id |-> "1"]>>,
     stray |-> Stray(2, 2, 1), itemCnt |-> ItemCnt(None, None, None)]

Templates ==
    {NoHeader, FullHeader, NoZeroHeader, FallbackHeader, NoContainerHeader}

\* ------------------------------------------------------------------------
\* Construction.

\* The loop over hh:style: the last style named Normal sets both ids.
RECURSIVE find_normal(_, _)
find_normal(styles, acc) ==
    IF styles = <<>> THEN acc
    ELSE find_normal(Tail(styles),
             IF Head(styles).name = "Normal"
             THEN [normal_style_id |-> int(Head(styles).id),
                   normal_para_pr_id |-> int(Head(styles).paraPrIDRef)]
             ELSE acc)

\* __init__ followed by _parse_styles_and_init_xml when a header is given.
NewConverter(header) ==
    LET normal == find_normal(header.style,
                      [normal_style_id |-> 0, normal_para_pr_id |-> 1])
    IN  [header_xml_content |-> header,
         header_root |-> header,
         normal_style_id |-> normal.normal_style_id,
         normal_para_pr_id |-> normal.normal_para_pr_id,
         char_pr_cache |-> <<>>,
         para_pr_cache |-> <<>>,
         max_char_pr_id |-> max_id(header.charPr, 0),
         max_para_pr_id |-> max_id(header.paraPr, 0),
         max_border_fill_id |-> max_id(header.borderFill, 0),
         table_border_fill_id |-> None]

\* ------------------------------------------------------------------------
\* _get_or_create_char_pr

\* Each script format adds its own marker and leaves the other one alone.
ScriptMarkers_keep(new_node, active_formats) ==
    [new_node EXCEPT
        !.supscript = @ \/ "SUPERSCRIPT" \in active_formats,
        !.subscript = @ \/ "SUBSCRIPT" \in active_formats]

\* if 'SUPERSCRIPT' in active_formats: remove subscript, ensure supscript
\* elif 'SUBSCRIPT' in active_formats: remove supscript, ensure subscript
ScriptMarkers(new_node, active_formats) ==
    IF "SUPERSCRIPT" \in active_formats
    THEN [new_node EXCEPT !.subscript = FALSE, !.supscript = TRUE]
    ELSE IF "SUBSCRIPT" \in active_formats
    THEN [new_node EXCEPT !.supscript = FALSE, !.subscript = TRUE]
    ELSE new_node

\* color if color else '#000000'
Ink(color) == IF TruthyS(color) THEN color[1] ELSE BLACK

\* The clone of base_node with the new id, colour, size and format markers.
ApplyCharFormats(base_node, new_id, active_formats, color, font_size) ==
    ScriptMarkers(
        [base_node EXCEPT
            !.id = new_id,
            !.textColor = IF TruthyS(color) THEN color[1] ELSE @,
            !.height = IF TruthyN(font_size)
                       THEN str(font_size[1] * 100) ELSE @,
            !.bold = @ \/ "BOLD" \in active_formats,
            !.italic = @ \/ "ITALIC" \in active_formats,
            !.underline =
                IF "UNDERLINE" \in active_formats
                THEN Some([type |-> "BOTTOM", shape |-> "SOLID",
                           color |-> Ink(color)])
                ELSE IF TruthyS(color) /\ @ # None
                THEN Some([@[1] EXCEPT !.color = color[1]])
                ELSE @,
            !.strikeout =
                IF "STRIKEOUT" \in active_formats
                THEN Some([shape |-> "CONTINUOUS", color |-> Ink(color)])
                ELSE @],
        active_formats)

\* The requested base node only.
CharBaseNode_requested(s, base) == find(s.header_root.charPr, base)

\* The base node: the requested one, else character property 0, else None.
CharBaseNode(s, base) ==
    LET node == find(s.header_root.charPr, base)
    IN  IF node # None THEN node ELSE find(s.header_root.charPr, "0")

\* Whether the call returns before anything is looked up or created.
CharNoFormatting(active_formats, color, font_size) ==
    active_formats = {} /\ ~TruthyS(color) /\ ~TruthyN(font_size)

\* The method without the cache update: a new record on every call.
get_or_create_char_pr_uncached(s, base_char_pr_id, active_formats, color, font_size) ==
    LET base == str(base_char_pr_id)
        cache_key == <<base, active_formats, color, font_size>>
        base_node == CharBaseNode(s, base)
        new_id == str(s.max_char_pr_id + 1)
        new_node == ApplyCharFormats(base_node[1], new_id, active_formats,
                                     color, font_size)
    IN  IF cache_key \in DOMAIN s.char_pr_cache
        THEN [self |-> s, ret |-> s.char_pr_cache[cache_key]]
        ELSE IF CharNoFormatting(active_formats, color, font_size)
        THEN [self |-> s, ret |-> base]
        ELSE IF ~s.header_root.loaded
        THEN [self |-> s, ret |-> base]
        ELSE IF base_node = None
        THEN [self |-> s, ret |-> base]
        ELSE [self |->
                 [s EXCEPT
                     !.max_char_pr_id = @ + 1,
                     !.header_root.charPr =
                         IF s.header_root.charProperties
                         THEN Append(@, new_node) ELSE @],
              ret |-> new_id]

\* The method without the early return for the plain combination.
get_or_create_char_pr_noreturn(s, base_char_pr_id, active_formats, color, font_size) ==
    LET base == str(base_char_pr_id)
        cache_key == <<base, active_formats, color, font_size>>
        base_node == CharBaseNode(s, base)
        new_id == str(s.max_char_pr_id + 1)
        new_node == ApplyCharFormats(base_node[1], new_id, active_formats,
                                     color, font_size)
    IN  IF cache_key \in DOMAIN s.char_pr_cache
        THEN [self |-> s, ret |-> s.char_pr_cache[cache_key]]
        ELSE IF ~s.header_root.loaded
        THEN [self |-> s, ret |-> base]
        ELSE IF base_node = None
        THEN [self |-> s, ret |-> base]
        ELSE [self |->
                 [s EXCEPT
                     !.max_char_pr_id = @ + 1,
                     !.header_root.charPr =
                         IF s.header_root.charProperties
                         THEN Append(@, new_node) ELSE @,
                     !.char_pr_cache = (cache_key :> new_id) @@ @],
              ret |-> new_id]

\* new_node is the base node itself instead of a copy of it: the id and
\* the formats are written into the base record, which is appended again.
get_or_create_char_pr_shared(s, base_char_pr_id, active_formats, color, font_size) ==
    LET base == str(base_char_pr_id)
        cache_key == <<base, active_formats, color, font_size>>
        base_node == CharBaseNode(s, base)
        new_id == str(s.max_char_pr_id + 1)
        new_node == ApplyCharFormats(base_node[1], new_id, active_formats,
                                     color, font_size)
    IN  IF cache_key \in DOMAIN s.char_pr_cache
        THEN [self |-> s, ret |-> s.char_pr_cache[cache_key]]
        ELSE IF CharNoFormatting(active_formats, color, font_size)
        THEN [self |-> s, ret |-> base]
        ELSE IF ~s.header_root.loaded
        THEN [self |-> s, ret |-> base]
        ELSE IF base_node = None
        THEN [self |-> s, ret |-> base]
        ELSE [self |->
                 [s EXCEPT
                     !.max_char_pr_id = @ + 1,
                     !.header_root.charPr =
                         IF s.header_root.charProperties
                         THEN Append([i \in DOMAIN @ |->
                                         IF @[i] = base_node[1]
                                         THEN new_node ELSE @[i]],
                                     new_node)
                         ELSE [i \in DOMAIN @ |->
                                  IF @[i] = base_node[1]
                                  THEN new_node ELSE @[i]],
                     !.char_pr_cache = (cache_key :> new_id) @@ @],
              ret |-> new_id]

\* The whole method: the converter after the call and the value returned.
get_or_create_char_pr(s, base_char_pr_id, active_formats, color, font_size) ==
    LET base == str(base_char_pr_id)
        cache_key == <<base, active_formats, color, font_size>>
        base_node == CharBaseNode(s, base)
        new_id == str(s.max_char_pr_id + 1)
        new_node == ApplyCharFormats(base_node[1], new_id, active_formats,
                                     color, font_size)
    IN  IF cache_key \in DOMAIN s.char_pr_cache
        THEN [self |-> s, ret |-> s.char_pr_cache[cache_key]]
        ELSE IF CharNoFormatting(active_formats, color, font_size)
        THEN [self |-> s, ret |-> base]
        ELSE IF ~s.header_root.loaded
        THEN [self |-> s, ret |-> base]
        ELSE IF base_node = None
        THEN [self |-> s, ret |-> base]
        ELSE [self |->
                 [s EXCEPT
                     !.max_char_pr_id = @ + 1,
                     !.header_root.charPr =
                         IF s.header_root.charProperties
                         THEN Append(@, new_node) ELSE @,
                     !.char_pr_cache = (cache_key :> new_id) @@ @],
              ret |-> new_id]

\* ------------------------------------------------------------------------
\* _get_or_create_para_pr

\* int(x * 100) if x else 0, for x an integer number of points or None.
to_hwpunit(x) == IF TruthyN(x) THEN x[1] * 100 ELSE 0

\* The clone of base_node with the new id and both margins set.
ApplyParaMargins(base_node, new_id, left_margin, indent_val) ==
    [base_node EXCEPT
        !.id = new_id,
        !.caseMargin = Margin(str(indent_val), str(left_margin)),
        !.defaultMargin = Margin(str(indent_val), str(left_margin))]

\* The base node: the Normal style's paragraph property, else paragraph
\* property 0, else None.
ParaBaseNode(s) ==
    LET node == find(s.header_root.paraPr, str(s.normal_para_pr_id))
    IN  IF node # None THEN node ELSE find(s.header_root.paraPr, "0")

\* The method without the early return for no indentation.
get_or_create_para_pr_nozero(s, padding_left, text_indent) ==
    LET left_margin == to_hwpunit(padding_left)
        indent_val == to_hwpunit(text_indent)
        cache_key == <<left_margin, indent_val>>
        base_node == ParaBaseNode(s)
        new_id == str(s.max_para_pr_id + 1)
        new_node == ApplyParaMargins(base_node[1], new_id, left_margin,
                                     indent_val)
    IN  IF cache_key \in DOMAIN s.para_pr_cache
        THEN [self |-> s, ret |-> s.para_pr_cache[cache_key]]
        ELSE IF ~s.header_root.loaded
        THEN [self |-> s, ret |-> str(s.normal_para_pr_id)]
        ELSE IF base_node = None
        THEN [self |-> s, ret |-> str(s.normal_para_pr_id)]
        ELSE [self |->
                 [s EXCEPT
                     !.max_para_pr_id = @ + 1,
                     !.header_root.paraPr =
                         IF s.header_root.paraProperties
                         THEN Append(@, new_node) ELSE @,
                     !.para_pr_cache = (cache_key :> new_id) @@ @],
              ret |-> new_id]

\* The method with the cache keyed by the arguments as given.
get_or_create_para_pr_rawkey(s, padding_left, text_indent) ==
    LET left_margin == to_hwpunit(padding_left)
        indent_val == to_hwpunit(text_indent)
        cache_key == <<padding_left, text_indent>>
        base_node == ParaBaseNode(s)
        new_id == str(s.max_para_pr_id + 1)
        new_node == ApplyParaMargins(base_node[1], new_id, left_margin,
                                     indent_val)
    IN  IF cache_key \in DOMAIN s.para_pr_cache
        THEN [self |-> s, ret |-> s.para_pr_cache[cache_key]]
        ELSE IF left_margin = 0 /\ indent_val = 0
        THEN [self |-> s, ret |-> str(s.normal_para_pr_id)]
        ELSE IF ~s.header_root.loaded
        THEN [self |-> s, ret |-> str(s.normal_para_pr_id)]
        ELSE IF base_node = None
        THEN [self |-> s, ret |-> str(s.normal_para_pr_id)]
        ELSE [self |->
                 [s EXCEPT
                     !.max_para_pr_id = @ + 1,
                     !.header_root.paraPr =
                         IF s.header_root.paraProperties
                         THEN Append(@, new_node) ELSE @,
                     !.para_pr_cache = (cache_key :> new_id) @@ @],
              ret |-> new_id]

\* The method with a cache of one entry: a miss that synthesizes a record
\* forgets the pairs resolved before it.
get_or_create_para_pr_one_entry(s, padding_left, text_indent) ==
    LET left_margin == to_hwpunit(padding_left)
        indent_val == to_hwpunit(text_indent)
        cache_key == <<left_margin, indent_val>>
        base_node == ParaBaseNode(s)
        new_id == str(s.max_para_pr_id + 1)
        new_node == ApplyParaMargins(base_node[1], new_id, left_margin,
                                     indent_val)
    IN  IF cache_key \in DOMAIN s.para_pr_cache
        THEN [self |-> s, ret |-> s.para_pr_cache[cache_key]]
        ELSE IF left_margin = 0 /\ indent_val = 0
        THEN [self |-> s, ret |-> str(s.normal_para_pr_id)]
        ELSE IF ~s.header_root.loaded
        THEN [self |-> s, ret |-> str(s.normal_para_pr_id)]
        ELSE IF base_node = None
        THEN [self |-> s, ret |-> str(s.normal_para_pr_id)]
        ELSE [self |->
                 [s EXCEPT
                     !.max_para_pr_id = @ + 1,
                     !.header_root.paraPr =
                         IF s.header_root.paraProperties
                         THEN Append(@, new_node) ELSE @,
                     !.para_pr_cache = (cache_key :> new_id)],
              ret |-> new_id]

\* The whole method: the converter after the call and the value returned.
get_or_create_para_pr(s, padding_left, text_indent) ==
    LET left_margin == to_hwpunit(padding_left)
        indent_val == to_hwpunit(text_indent)
        cache_key == <<left_margin, indent_val>>
        base_node == ParaBaseNode(s)
        new_id == str(s.max_para_pr_id + 1)
        new_node == ApplyParaMargins(base_node[1], new_id, left_margin,
                                     indent_val)
    IN  IF cache_key \in DOMAIN s.para_pr_cache
        THEN [self |-> s, ret |-> s.para_pr_cache[cache_key]]
        ELSE IF left_margin = 0 /\ indent_val = 0
        THEN [self |-> s, ret |-> str(s.normal_para_pr_id)]
        ELSE IF ~s.header_root.loaded
        THEN [self |-> s, ret |-> str(s.normal_para_pr_id)]
        ELSE IF base_node = None
        THEN [self |-> s, ret |-> str(s.normal_para_pr_id)]
        ELSE [self |->
                 [s EXCEPT
                     !.max_para_pr_id = @ + 1,
                     !.header_root.paraPr =
                         IF s.header_root.paraProperties
                         THEN Append(@, new_node) ELSE @,
                     !.para_pr_cache = (cache_key :> new_id) @@ @],
              ret |-> new_id]

\* ------------------------------------------------------------------------
\* The document tree (Pandoc blocks and inlines) and the emitted markup.

\* An inline {"t": t, "c": ...}.  c holds the children of a wrapper; styles
\* is what _extract_style_from_attr finds in a Span's attributes.
Inline(t, styles, c) == [t |-> t, styles |-> styles, c |-> c]

\* The styles dict of a Span: the four flags, 'color' (None when the key is
\* absent) and 'font-size' (None when the key is absent, Some(None) when the
\* size did not parse, Some(Some(n)) otherwise).
SpanStyles(bold, italic, underline, strikeout, color, font_size) ==
    [bold |-> bold, italic |-> italic, underline |-> underline,
     strikeout |-> strikeout, color |-> color, font_size |-> font_size]

NoStyles == SpanStyles(FALSE, FALSE, FALSE, FALSE, None, None)

Str == Inline("Str", NoStyles, <<>>)

Space == Inline("Space", NoStyles, <<>>)

LineBreak == Inline("LineBreak", NoStyles, <<>>)

\* An inline kind _process_inlines has no branch for.
Code == Inline("Code", NoStyles, <<>>)

Wrap(t, c) == Inline(t, NoStyles, c)

Span(styles, c) == Inline("Span", styles, c)

\* <hp:run charPrIDRef="...">, with the arguments the id was resolved from.
Run(charPrIDRef, active_formats, color, font_size) ==
    [tag |-> "run", charPrIDRef |-> charPrIDRef,
     active_formats |-> active_formats, color |-> color,
     font_size |-> font_size]

LineSeg == [tag |-> "lineseg"]

\* The format a wrapper inline adds to the active set.
WrapperFormat ==
    [Strong |-> "BOLD", Emph |-> "ITALIC", Underline |-> "UNDERLINE",
     Strikeout |-> "STRIKEOUT", Superscript |-> "SUPERSCRIPT",
     Subscript |-> "SUBSCRIPT"]

\* The formats a Span's styles add.
SpanFormats(styles) ==
    (IF styles.bold THEN {"BOLD"} ELSE {})
    \cup (IF styles.italic THEN {"ITALIC"} ELSE {})
    \cup (IF styles.underline THEN {"UNDERLINE"} ELSE {})
    \cup (IF styles.strikeout THEN {"STRIKEOUT"} ELSE {})

\* The run of a Str or Space, from the result of resolving its id.
text_run(r, active_formats, base_color, base_size) ==
    [self |-> r.self,
     out |-> <<Run(r.ret, active_formats, base_color, base_size)>>]

RECURSIVE process_inlines(_, _, _, _, _)

\* A Span overrides a colour or size only where none is inherited: the
\* outermost Span wins.
process_inline_outermost(s, inline, active_formats, base_color, base_size) ==
    IF inline.t \in {"Str", "Space"}
    THEN text_run(get_or_create_char_pr(s, 0, active_formats, base_color,
                                        base_size),
                  active_formats, base_color, base_size)
    ELSE IF inline.t \in DOMAIN WrapperFormat
    THEN process_inlines(s, inline.c,
             active_formats \cup {WrapperFormat[inline.t]},
             base_color, base_size)
    ELSE IF inline.t = "Span"
    THEN process_inlines(s, inline.c,
             active_formats \cup SpanFormats(inline.styles),
             IF inline.styles.color # None /\ base_color = None
             THEN inline.styles.color ELSE base_color,
             IF inline.styles.font_size # None /\ base_size = None
             THEN inline.styles.font_size[1] ELSE base_size)
    ELSE IF inline.t = "LineBreak"
    THEN [self |-> s, out |-> <<LineSeg>>]
    ELSE [self |-> s, out |-> <<>>]

\* One iteration of the loop of _process_inlines.
process_inline(s, inline, active_formats, base_color, base_size) ==
    IF inline.t \in {"Str", "Space"}
    THEN text_run(get_or_create_char_pr(s, 0, active_formats, base_color,
                                        base_size),
                  active_formats, base_color, base_size)
    ELSE IF inline.t \in DOMAIN WrapperFormat
    THEN process_inlines(s, inline.c,
             active_formats \cup {WrapperFormat[inline.t]},
             base_color, base_size)
    ELSE IF inline.t = "Span"
    THEN process_inlines(s, inline.c,
             active_formats \cup SpanFormats(inline.styles),
             IF inline.styles.color # None
             THEN inline.styles.color ELSE base_color,
             IF inline.styles.font_size # None
             THEN inline.styles.font_size[1] ELSE base_size)
    ELSE IF inline.t = "LineBreak"
    THEN [self |-> s, out |-> <<LineSeg>>]
    ELSE [self |-> s, out |-> <<>>]

\* The formats of the runs emitted so far stay active for the inlines that
\* follow (the set is shared instead of copied).
inlines_after_shared(one, inlines, active_formats, base_color, base_size) ==
    LET rest == process_inlines(one.self, inlines,
                    active_formats
                    \cup UNION {one.out[i].active_formats :
                                   i \in {j \in DOMAIN one.out :
                                             one.out[j].tag = "run"}},
                    base_color, base_size)
    IN  [self |-> rest.self, out |-> one.out \o rest.out]

\* The iterations after the first, which gave one: the converter threaded
\* through, the emitted runs concatenated in order.
inlines_after(one, inlines, active_formats, base_color, base_size) ==
    LET rest == process_inlines(one.self, inlines, active_formats,
                                base_color, base_size)
    IN  [self |-> rest.self, out |-> one.out \o rest.out]

\* _process_inlines
process_inlines(s, inlines, active_formats, base_color, base_size) ==
    IF inlines = <<>> THEN [self |-> s, out |-> <<>>]
    ELSE inlines_after(
             process_inline(s, Head(inlines), active_formats, base_color,
                            base_size),
             Tail(inlines), active_formats, base_color, base_size)

\* ------------------------------------------------------------------------
\* Blocks.

\* para_styles is what the HTML pre-pass holds for the paragraph's text,
\* already converted by _convert_size_to_hwp: None when nothing matches.
ParaStyles(padding_left, margin_left, text_indent) ==
    Some([padding_left |-> padding_left, margin_left |-> margin_left,
          text_indent |-> text_indent])

Para(inlines, para_styles) ==
    [t |-> "Para", c |-> inlines, para_styles |-> para_styles]

Plain(inlines, para_styles) ==
    [t |-> "Plain", c |-> inlines, para_styles |-> para_styles]

Header(level, inlines) == [t |-> "Header", level |-> level, c |-> inlines]

BulletList(items) == [t |-> "BulletList", items |-> items]

\* c = [[start, style, delim], items]
OrderedList(start, items) ==
    [t |-> "OrderedList", start |-> start, items |-> items]

\* c = [attr, caption, specs, head, bodies, foot]; a body is
\* [attr, row_head_columns, intermediate_headers, main_rows].
Table(specs, head, bodies, foot) ==
    [t |-> "Table", specs |-> specs, head |-> head, bodies |-> bodies,
     foot |-> foot]

Body(inter_headers, main_rows) ==
    [inter_headers |-> inter_headers, main_rows |-> main_rows]

\* Cell = [attr, align, rowspan, colspan, blocks]
Cell(rowspan, colspan, blocks) ==
    [rowspan |-> rowspan, colspan |-> colspan, blocks |-> blocks]

\* A block kind _process_blocks has no branch for.
CodeBlock == [t |-> "CodeBlock"]

\* <hp:p paraPrIDRef=".." styleIDRef=".."> with its runs; marker is the
\* text of the list marker run ("" when there is none).
P(paraPrIDRef, styleIDRef, marker, runs) ==
    [tag |-> "p", paraPrIDRef |-> paraPrIDRef, styleIDRef |-> styleIDRef,
     marker |-> marker, runs |-> runs]

\* The result of a handler: the converter after it, the markup returned,
\* and whether it ended by raising instead of returning.
Returned(s, out) == [self |-> s, out |-> out, raised |-> FALSE]

Raised(s) == [self |-> s, out |-> <<>>, raised |-> TRUE]

\* a or b, for optional numbers.
PyOr(a, b) == IF TruthyN(a) THEN a ELSE b

\* The results of two steps in a row: the first that raised, else the
\* markup of both.
Joined(one, rest) ==
    IF one.raised THEN one
    ELSE IF rest.raised THEN rest
    ELSE Returned(rest.self, one.out \o rest.out)

\* _create_para_start(...) + an optional marker run + the inlines +
\* '</hp:p>'.
para_out(paraPrIDRef, styleIDRef, marker, inl) ==
    Returned(inl.self, <<P(paraPrIDRef, styleIDRef, marker, inl.out)>>)

\* para_styles.get('padding-left', 0) or para_styles.get('margin-left', 0)
padding_left_of(para_styles) ==
    IF para_styles = None THEN Some(0)
    ELSE PyOr(para_styles[1].padding_left, para_styles[1].margin_left)

\* para_styles.get('text-indent', 0)
text_indent_of(para_styles) ==
    IF para_styles = None THEN Some(0) ELSE para_styles[1].text_indent

\* The paragraph, from the result pr of resolving its paragraph property.
para_with(s, pr, block) ==
    para_out(pr.ret, str(s.normal_style_id), "",
             process_inlines(pr.self, block.c, {}, None, None))

\* _handle_para and _handle_plain (the two bodies are the same).
handle_para(s, block) ==
    para_with(s,
              get_or_create_para_pr(s, padding_left_of(block.para_styles),
                                    text_indent_of(block.para_styles)),
              block)

\* _handle_header: style min(level, 6), the default paragraph property 1.
handle_header(s, block) ==
    para_out("1", str(IF block.level < 6 THEN block.level ELSE 6), "",
             process_inlines(s, block.c, {}, None, None))

\* One block of a list item: a marker paragraph for a Plain or Para block,
\* nothing for any other block.
handle_item_block(s, block, marker) ==
    IF block.t \in {"Plain", "Para"}
    THEN para_out("1", "0", marker,
                  process_inlines(s, block.c, {}, None, None))
    ELSE Returned(s, <<>>)

RECURSIVE handle_item_blocks(_, _, _)

item_blocks_after(one, blocks, marker) ==
    Joined(one, handle_item_blocks(one.self, blocks, marker))

\* for block in item: the loop over one list item's blocks.
handle_item_blocks(s, blocks, marker) ==
    IF blocks = <<>> THEN Returned(s, <<>>)
    ELSE item_blocks_after(handle_item_block(s, Head(blocks), marker),
                           Tail(blocks), marker)

\* The text of a bullet marker run (the bullet glyph and a space).
BulletMarker == "(bullet) "

RECURSIVE handle_bullet_list(_, _)

bullet_items_after(one, items) ==
    Joined(one, handle_bullet_list(one.self, items))

\* _handle_bullet_list
handle_bullet_list(s, items) ==
    IF items = <<>> THEN Returned(s, <<>>)
    ELSE bullet_items_after(
             handle_item_blocks(s, Head(items), BulletMarker), Tail(items))

\* The number enumerate(items, 1) gives the first item.
first_idx(start) == 1

RECURSIVE ordered_items(_, _, _)

ordered_items_after(one, items, idx) ==
    Joined(one, ordered_items(one.self, items, idx + 1))

\* The loop of _handle_ordered_list from item number idx on.
ordered_items(s, items, idx) ==
    IF items = <<>> THEN Returned(s, <<>>)
    ELSE ordered_items_after(
             handle_item_blocks(s, Head(items), str(idx) \o ". "),
             Tail(items), idx)

\* _handle_ordered_list
handle_ordered_list(s, block) ==
    ordered_items(s, block.items, first_idx(block.start))

\* ------------------------------------------------------------------------
\* Tables.

TOTAL_TABLE_WIDTH == 45000

\* A border fill is created by every call, whether one exists or not.
ensure_table_border_fill_always(s) ==
    IF ~s.header_root.loaded THEN Raised(s)
    ELSE Returned(
           [s EXCEPT !.max_border_fill_id = @ + 1,
                     !.table_border_fill_id = Some(s.max_border_fill_id + 1),
                     !.header_root.borderFills = TRUE,
                     !.header_root.borderFill =
                         Append(@, [id |-> str(s.max_border_fill_id + 1)])],
           <<>>)

\* _ensure_table_border_fill.  Without a header tree the lookup of the
\* container is an attribute access on None: the method raises after the
\* counter and table_border_fill_id have been assigned.
ensure_table_border_fill(s) ==
    IF s.table_border_fill_id # None THEN Returned(s, <<>>)
    ELSE
      LET id == s.max_border_fill_id + 1
          s1 == [s EXCEPT !.max_border_fill_id = id,
                          !.table_border_fill_id = Some(id)]
      IN  IF ~s.header_root.loaded THEN Raised(s1)
          ELSE Returned(
                 [s1 EXCEPT !.header_root.borderFills = TRUE,
                            !.header_root.borderFill =
                                Append(@, [id |-> str(id)])],
                 <<>>)

\* Each body's main rows before its intermediate headers.
RECURSIVE body_rows_main_first(_)
body_rows_main_first(bodies) ==
    IF bodies = <<>> THEN <<>>
    ELSE Head(bodies).main_rows \o Head(bodies).inter_headers
         \o body_rows_main_first(Tail(bodies))

\* 1. Flatten Rows: head rows, each body's intermediate headers and main
\* rows, foot rows.
RECURSIVE body_rows(_)
body_rows(bodies) ==
    IF bodies = <<>> THEN <<>>
    ELSE Head(bodies).inter_headers \o Head(bodies).main_rows
         \o body_rows(Tail(bodies))

flatten_rows(table) == table.head \o body_rows(table.bodies) \o table.foot

\* 2. Calculate Widths: int(TOTAL_TABLE_WIDTH / col_cnt) for every spec.
col_widths(specs) ==
    [i \in 1 .. Len(specs) |-> TOTAL_TABLE_WIDTH \div Len(specs)]

\* The column pointer as it is, occupied or not.
next_free_none(occupied_cells, curr_row_addr, curr_col_addr) == curr_col_addr

\* while (curr_row_addr, curr_col_addr) in occupied_cells: curr_col_addr += 1
RECURSIVE next_free(_, _, _)
next_free(occupied_cells, curr_row_addr, curr_col_addr) ==
    IF <<curr_row_addr, curr_col_addr>> \in occupied_cells
    THEN next_free(occupied_cells, curr_row_addr, curr_col_addr + 1)
    ELSE curr_col_addr

\* curr_col_addr += colspan
advance(actual_col, colspan) == actual_col + colspan

\* The anchor row of the span only.
span_cells_anchor_row(curr_row_addr, actual_col, rowspan, colspan) ==
    {<<curr_row_addr, actual_col + c>> : c \in 0 .. colspan - 1}

\* The positions the two range() loops add to occupied_cells.
span_cells(curr_row_addr, actual_col, rowspan, colspan) ==
    {<<curr_row_addr + r, actual_col + c>> :
        r \in 0 .. rowspan - 1, c \in 0 .. colspan - 1}

\* The sum over the spanned columns; a column at or beyond len(col_widths)
\* counts int(TOTAL_TABLE_WIDTH / col_cnt).
RECURSIVE cell_width(_, _, _, _)
cell_width(actual_col, colspan, widths, col_cnt) ==
    IF colspan <= 0 THEN 0
    ELSE cell_width(actual_col, colspan - 1, widths, col_cnt)
         + (IF actual_col + colspan - 1 < Len(widths)
            THEN widths[actual_col + colspan]
            ELSE TOTAL_TABLE_WIDTH \div col_cnt)

\* The division by col_cnt = 0 raises ZeroDivisionError.
cell_width_raises(actual_col, colspan, widths, col_cnt) ==
    col_cnt = 0 /\ \E i \in 0 .. colspan - 1 : actual_col + i >= Len(widths)

\* <hp:tc> with its cellAddr, cellSpan and cellSz, and the markup of its
\* blocks.
Tc(borderFillIDRef, colAddr, rowAddr, colSpan, rowSpan, width, content) ==
    [tag |-> "tc", borderFillIDRef |-> borderFillIDRef,
     colAddr |-> colAddr, rowAddr |-> rowAddr,
     colSpan |-> colSpan, rowSpan |-> rowSpan,
     width |-> width, content |-> content]

\* The paragraph, run and <hp:tbl> around the cells.  occupied_cells and
\* collided are not markup: they are the local occupancy set when the walk
\* ended, and whether some cell's span reached a position that was already
\* in it.
Tbl(paraPrIDRef, styleIDRef, borderFillIDRef, rowCnt, colCnt, cells, occupied_cells, collided) ==
    [tag |-> "tbl", paraPrIDRef |-> paraPrIDRef, styleIDRef |-> styleIDRef,
     charPrIDRef |-> "0", borderFillIDRef |-> borderFillIDRef,
     rowCnt |-> rowCnt, colCnt |-> colCnt, width |-> TOTAL_TABLE_WIDTH,
     cells |-> cells, occupied_cells |-> occupied_cells,
     collided |-> collided]

\* The result of walking cells: also the occupancy set after them and
\* whether a span reached an occupied position.
Walked(s, occupied_cells, collided, out, raised) ==
    [self |-> s, occupied_cells |-> occupied_cells, collided |-> collided,
     out |-> out, raised |-> raised]

RECURSIVE process_blocks(_, _)
RECURSIVE walk_cells(_, _, _, _, _, _, _)

\* The cells after the first, which gave tc: the row's markup and the
\* occupancy set after it.
cells_after(tc, collided, rest) ==
    IF rest.raised THEN rest
    ELSE Walked(rest.self, rest.occupied_cells, collided \/ rest.collided,
                <<tc>> \o rest.out, FALSE)

\* The occupancy set is shared with the tables rendered inside the cell:
\* the positions they marked stay marked for the rest of this table.
emit_cell_shared_occupancy(content, cells, curr_row_addr, actual_col, occupied_cells, widths, col_cnt) ==
    IF content.raised
    THEN Walked(content.self, occupied_cells, FALSE, <<>>, TRUE)
    ELSE cells_after(
             Tc(str(content.self.table_border_fill_id[1]), actual_col,
                curr_row_addr, Head(cells).colspan, Head(cells).rowspan,
                cell_width(actual_col, Head(cells).colspan, widths, col_cnt),
                content.out),
             span_cells(curr_row_addr, actual_col, Head(cells).rowspan,
                        Head(cells).colspan) \cap occupied_cells # {},
             walk_cells(content.self, Tail(cells), curr_row_addr,
                        advance(actual_col, Head(cells).colspan),
                        occupied_cells
                          \cup span_cells(curr_row_addr, actual_col,
                                          Head(cells).rowspan,
                                          Head(cells).colspan)
                          \cup UNION {content.out[i].occupied_cells :
                                         i \in {j \in DOMAIN content.out :
                                                   content.out[j].tag = "tbl"}},
                        widths, col_cnt))

\* The <hp:tc> of the first cell around its content, the pointer advanced
\* by its colspan, then the rest of the row.
emit_cell(content, cells, curr_row_addr, actual_col, occupied_cells, widths, col_cnt) ==
    IF content.raised
    THEN Walked(content.self, occupied_cells, FALSE, <<>>, TRUE)
    ELSE cells_after(
             Tc(str(content.self.table_border_fill_id[1]), actual_col,
                curr_row_addr, Head(cells).colspan, Head(cells).rowspan,
                cell_width(actual_col, Head(cells).colspan, widths, col_cnt),
                content.out),
             span_cells(curr_row_addr, actual_col, Head(cells).rowspan,
                        Head(cells).colspan) \cap occupied_cells # {},
             walk_cells(content.self, Tail(cells), curr_row_addr,
                        advance(actual_col, Head(cells).colspan),
                        occupied_cells
                          \cup span_cells(curr_row_addr, actual_col,
                                          Head(cells).rowspan,
                                          Head(cells).colspan),
                        widths, col_cnt))

\* The first cell at the free column found for it: its span marked, its
\* width summed, its blocks rendered.
place_cell(s, cells, curr_row_addr, actual_col, occupied_cells, widths, col_cnt) ==
    IF cell_width_raises(actual_col, Head(cells).colspan, widths, col_cnt)
    THEN Walked(s, occupied_cells, FALSE, <<>>, TRUE)
    ELSE emit_cell(process_blocks(s, Head(cells).blocks), cells,
                   curr_row_addr, actual_col, occupied_cells, widths,
                   col_cnt)

\* for cell in cells: the body of the loop for the first cell, then the
\* rest of the row from the advanced column pointer.
walk_cells(s, cells, curr_row_addr, curr_col_addr, occupied_cells, widths, col_cnt) ==
    IF cells = <<>> THEN Walked(s, occupied_cells, FALSE, <<>>, FALSE)
    ELSE place_cell(s, cells, curr_row_addr,
                    next_free(occupied_cells, curr_row_addr, curr_col_addr),
                    occupied_cells, widths, col_cnt)

RECURSIVE walk_rows(_, _, _, _, _, _)

\* The markup of a row and of the rows after it.
rows_joined(row, rest) ==
    IF rest.raised THEN rest
    ELSE Walked(rest.self, rest.occupied_cells,
                row.collided \/ rest.collided, row.out \o rest.out, FALSE)

\* The rows after the first, which gave row.
rows_after(row, rows, curr_row_addr, widths, col_cnt) ==
    IF row.raised THEN row
    ELSE rows_joined(row,
             walk_rows(row.self, rows, curr_row_addr + 1,
                       row.occupied_cells, widths, col_cnt))

\* for row in all_rows: one row's cells from column 0, then the next row.
walk_rows(s, rows, curr_row_addr, occupied_cells, widths, col_cnt) ==
    IF rows = <<>> THEN Walked(s, occupied_cells, FALSE, <<>>, FALSE)
    ELSE rows_after(walk_cells(s, Head(rows), curr_row_addr, 0,
                               occupied_cells, widths, col_cnt),
                    Tail(rows), curr_row_addr, widths, col_cnt)

\* The paragraph, run and table around the walked rows.
table_out(s, table, walk) ==
    IF walk.raised THEN Raised(walk.self)
    ELSE Returned(walk.self,
             <<Tbl(str(s.normal_para_pr_id), str(s.normal_style_id),
                   str(walk.self.table_border_fill_id[1]),
                   Len(flatten_rows(table)), Len(table.specs), walk.out,
                   walk.occupied_cells, walk.collided)>>)

\* The rows walked by the converter bf.self that holds the border fill.
table_rows(s, bf, table) ==
    IF bf.raised THEN Raised(bf.self)
    ELSE table_out(s, table,
             walk_rows(bf.self, flatten_rows(table), 0, {},
                       col_widths(table.specs), Len(table.specs)))

\* _handle_table
handle_table(s, table) ==
    IF flatten_rows(table) = <<>> THEN Returned(s, <<>>)
    ELSE table_rows(s, ensure_table_border_fill(s), table)

\* A block without a branch leaves a placeholder paragraph.
process_block_placeholder(s, block) ==
    IF block.t \in {"Para", "Plain"} THEN handle_para(s, block)
    ELSE IF block.t = "Header" THEN handle_header(s, block)
    ELSE IF block.t = "BulletList" THEN handle_bullet_list(s, block.items)
    ELSE IF block.t = "OrderedList" THEN handle_ordered_list(s, block)
    ELSE IF block.t = "Table" THEN handle_table(s, block)
    ELSE Returned(s, <<P("1", "0", "", <<>>)>>)

\* One iteration of the loop of _process_blocks.
process_block(s, block) ==
    IF block.t \in {"Para", "Plain"} THEN handle_para(s, block)
    ELSE IF block.t = "Header" THEN handle_header(s, block)
    ELSE IF block.t = "BulletList" THEN handle_bullet_list(s, block.items)
    ELSE IF block.t = "OrderedList" THEN handle_ordered_list(s, block)
    ELSE IF block.t = "Table" THEN handle_table(s, block)
    ELSE Returned(s, <<>>)

blocks_after(one, blocks) == Joined(one, process_blocks(one.self, blocks))

\* _process_blocks
process_blocks(s, blocks) ==
    IF blocks = <<>> THEN Returned(s, <<>>)
    ELSE blocks_after(process_block(s, Head(blocks)), Tail(blocks))

\* ------------------------------------------------------------------------
\* Inputs.

\* Arguments of direct character resolve calls: bases 0, 1 and 5 and the
\* absent base 9 with the plain, bold and script format sets; record 0 with
\* the other format sets, a colour, and the sizes 0 and 12.
CharArgs ==
    ({0, 1, 5, 9} \X {{}, {"BOLD"}, {"SUPERSCRIPT", "SUBSCRIPT"}, {"SUBSCRIPT"}}
        \X {None} \X {None})
    \cup {<<0, {}, Some(RED), None>>, <<0, {}, None, Some(0)>>,
          <<0, {"UNDERLINE", "STRIKEOUT"}, None, None>>,
          <<0, {"UNDERLINE", "STRIKEOUT"}, Some(RED), Some(12)>>}

\* Arguments of direct paragraph resolve calls.
ParaArgs == {None, Some(0), Some(2), Some(-1)} \X {None, Some(0), Some(-1)}

\* Inline trees.
BoldItalicTree ==
    <<Wrap("Strong", <<Str>>), Space, Wrap("Emph", <<Str>>),
      Wrap("Strong", <<Wrap("Emph", <<Str>>)>>)>>

RepeatTree ==
    <<Wrap("Strong", <<Str, Space, Str>>), Wrap("Emph", <<Str>>),
      Wrap("Strong", <<Str>>)>>

NestedTree ==
    <<Wrap("Emph", <<Wrap("Strong", <<Str>>), Str>>), LineBreak, Code, Str>>

SpanTree ==
    <<Span(SpanStyles(FALSE, FALSE, TRUE, FALSE, Some(RED), Some(Some(12))),
           <<Str, Wrap("Strong", <<Str>>),
             Span(SpanStyles(TRUE, FALSE, FALSE, FALSE, Some(BLUE),
                             Some(None)),
                  <<Str>>),
             Str>>),
      Str>>

ZeroSizeTree ==
    <<Span(SpanStyles(FALSE, FALSE, FALSE, FALSE, None, Some(Some(0))),
           <<Str, Wrap("Strong", <<Str>>)>>),
      Wrap("Strong", <<Str>>)>>

ScriptTree ==
    <<Wrap("Superscript", <<Wrap("Subscript", <<Str>>)>>),
      Wrap("Subscript", <<Str>>), Wrap("Strikeout", <<>>),
      Wrap("Underline", <<Wrap("Strikeout", <<Space>>)>>)>>

Trees ==
    {<<>>, <<Str, Space, Str>>, BoldItalicTree, RepeatTree, NestedTree,
     SpanTree, ZeroSizeTree, ScriptTree}

\* Table rows: up to two cells, each spanning one or two rows and columns.
Spans == {1, 2}

Cells == {Cell(r, c, <<>>) : r \in Spans, c \in Spans}

Rows == {<<>>} \cup {<<a>> : a \in Cells} \cup {<<a, b>> : a, b \in Cells}

RECURSIVE RowSeqs(_)
RowSeqs(n) ==
    IF n = 0 THEN {<<>>}
    ELSE RowSeqs(n - 1)
         \cup {Append(rs, r) : rs \in {x \in RowSeqs(n - 1) : Len(x) = n - 1},
                               r \in Rows}

\* Every table of 0 .. MaxRows such rows, all in one body, declaring
\* 1 .. MaxCols columns.
Tables ==
    {Table([i \in 1 .. n |-> "ColWidthDefault"], <<>>, <<Body(<<>>, rs)>>,
           <<>>) : n \in 1 .. MaxCols, rs \in RowSeqs(MaxRows)}

\* Ordered lists: a start number and items of blocks.
OrderedLists ==
    {OrderedList(start, items) :
        start \in {1, 5},
        items \in {<<>>,
                   <<<<Plain(<<Str>>, None)>>, <<Para(<<Str>>, None)>>>>,
                   <<<<Para(<<Wrap("Strong", <<Str>>)>>, None),
                       BulletList(<<<<Plain(<<Str>>, None)>>>>)>>,
                     <<CodeBlock>>,
                     <<Plain(<<Str>>, None)>>>>}}

\* Documents of the mixed specification.
SpanTable ==
    Table(<<"ColWidthDefault", "ColWidthDefault">>,
          <<<<Cell(1, 2, <<Plain(<<Wrap("Strong", <<Str>>)>>, None)>>),
              Cell(1, 1, <<>>)>>>>,
          <<Body(<<>>,
                 <<<<Cell(1, 1, <<Para(<<Str>>,
                                       ParaStyles(Some(2), None, None))>>),
                     Cell(1, 1, <<>>)>>>>)>>,
          <<>>)

NestedTable ==
    Table(<<"ColWidthDefault">>, <<>>,
          <<Body(<<>>, <<<<Cell(1, 1, <<SpanTable>>)>>>>)>>, <<>>)

NoColumnTable ==
    Table(<<>>, <<>>, <<Body(<<>>, <<<<Cell(1, 1, <<>>)>>>>)>>, <<>>)

Docs ==
    {<<Para(<<Str>>, None), Header(7, <<Wrap("Emph", <<Str>>)>>)>>,
     <<Para(<<Str>>, ParaStyles(None, Some(2), Some(-1))), CodeBlock,
       BulletList(<<<<Plain(<<Str>>, None)>>>>)>>,
     <<OrderedList(5, <<<<Plain(<<Str>>, None)>>,
                        <<Plain(<<Str>>, None)>>>>)>>,
     <<SpanTable>>,
     <<NestedTable, Para(<<Str>>, ParaStyles(Some(0), Some(2), Some(-1)))>>,
     <<Table(<<"ColWidthDefault">>, <<>>, <<>>, <<>>)>>,
     <<NoColumnTable>>}

MixedCharArgs ==
    {<<0, {}, None, None>>, <<0, {"BOLD"}, None, None>>,
     <<1, {"SUPERSCRIPT", "SUBSCRIPT"}, None, None>>,
     <<9, {"BOLD"}, None, None>>, <<9, {}, None, Some(0)>>}

MixedParaArgs == {<<None, Some(0)>>, <<Some(2), None>>, <<Some(2), Some(-1)>>}

MixedTrees == {BoldItalicTree, SpanTree}

\* ------------------------------------------------------------------------
\* Serialization.

\* len(container.findall('hh:X')): the direct children of the container.
child_count(root, elems) == Len(root[elems]) - root.stray[elems]

\* The counts are left as the template has them.
set_item_counts_kept(root) == root

\* if container is not None: container.set('itemCnt', str(count))
set_item_counts(root) ==
    [root EXCEPT
        !.itemCnt.charProperties =
            IF root.charProperties
            THEN Some(str(child_count(root, "charPr"))) ELSE @,
        !.itemCnt.paraProperties =
            IF root.paraProperties
            THEN Some(str(child_count(root, "paraPr"))) ELSE @,
        !.itemCnt.borderFills =
            IF root.borderFills
            THEN Some(str(child_count(root, "borderFill")))
            ELSE @]

\* get_modified_header_xml: without a tree the given content (possibly
\* None) is returned as it is; otherwise the counts are written into the
\* tree and the tree is returned as text.
get_modified_header_xml(s) ==
    IF ~s.header_root.loaded
    THEN [self |-> s,
          ret |-> IF s.header_xml_content.given
                  THEN Some(s.header_xml_content) ELSE None]
    ELSE [self |-> [s EXCEPT !.header_root = set_item_counts(@)],
          ret |-> Some(set_item_counts(s.header_root))]

\* ------------------------------------------------------------------------
\* The record of a call (what the caller sees) and the log of calls.

\* A call's record: the operation, its arguments (charKey or paraKey for a
\* resolve call, input for a handler), the id returned by a resolve call,
\* the markup returned by a handler, whether it raised, and how many
\* records it added to each collection of the header.
Call(op, charKey, paraKey, input, ret, out, raised, post) ==
    [op |-> op, charKey |-> charKey, paraKey |-> paraKey, input |-> input,
     ret |-> ret,
     out |-> out, raised |-> raised,
     newCharPr |-> Len(post.header_root.charPr)
                   - Len(self.header_root.charPr),
     newParaPr |-> Len(post.header_root.paraPr)
                   - Len(self.header_root.paraPr),
     newBorderFill |-> Len(post.header_root.borderFill)
                       - Len(self.header_root.borderFill)]

NoCharKey == <<0, {}, None, None>>

NoParaKey == <<None, None>>

\* The last call made ("init" before any call).
Last ==
    IF hist = <<>>
    THEN [op |-> "init", charKey |-> NoCharKey, paraKey |-> NoParaKey,
          input |-> <<>>, ret |-> "", out |-> <<>>, raised |-> FALSE,
          newCharPr |-> 0, newParaPr |-> 0, newBorderFill |-> 0]
    ELSE hist[Len(hist)]

\* ------------------------------------------------------------------------
\* The specifications.

\* peer when only one converter has been constructed.
NoPeer == [self |-> None, hist |-> <<>>]

\* The converter as constructed on one of the templates.
Init ==
    /\ \E header \in Templates : self = NewConverter(header)
    /\ pre = self
    /\ hist = <<>>
    /\ peer = NoPeer

\* A call takes the converter from self to post; pre keeps the converter
\* the call started from.  Every field the call assigns is an attribute
\* of its own instance: a second converter is left as it is.
Step(call, post) ==
    /\ self' = post
    /\ pre' = self
    /\ hist' = Append(hist, call)
    /\ peer' = peer

\* A direct call of _get_or_create_char_pr.
ResolveChar(Args) ==
    /\ Len(hist) < MaxCalls
    /\ \E a \in Args :
        LET r == get_or_create_char_pr(self, a[1], a[2], a[3], a[4])
        IN  Step(Call("char", a, NoParaKey, <<>>, r.ret, <<>>, FALSE, r.self),
                 r.self)

\* A direct call of _get_or_create_para_pr.
ResolvePara(Args) ==
    /\ Len(hist) < MaxCalls
    /\ \E a \in Args :
        LET r == get_or_create_para_pr(self, a[1], a[2])
        IN  Step(Call("para", NoCharKey, a, <<>>, r.ret, <<>>, FALSE, r.self),
                 r.self)

\* A call of _process_inlines on an inline tree.
ProcessInlines(Inputs) ==
    /\ Len(hist) < MaxCalls
    /\ \E tree \in Inputs :
        LET r == process_inlines(self, tree, {}, None, None)
        IN  Step(Call("inlines", NoCharKey, NoParaKey, tree, "", r.out,
                      FALSE, r.self),
                 r.self)

\* A call of _process_blocks on a document's blocks (process()).
ProcessBlocks(Inputs) ==
    /\ Len(hist) < MaxCalls
    /\ \E blocks \in Inputs :
        LET r == process_blocks(self, blocks)
        IN  Step(Call("blocks", NoCharKey, NoParaKey, blocks, "", r.out,
                      r.raised, r.self),
                 r.self)

\* A call of _handle_table on the first table of the conversion.
HandleTable(Inputs) ==
    /\ hist = <<>>
    /\ \E table \in Inputs :
        LET r == handle_table(self, table)
        IN  Step(Call("table", NoCharKey, NoParaKey, table, "", r.out,
                      r.raised, r.self),
                 r.self)

\* A call of _handle_ordered_list.
HandleOrderedList(Inputs) ==
    /\ Len(hist) < MaxCalls
    /\ \E list \in Inputs :
        LET r == handle_ordered_list(self, list)
        IN  Step(Call("olist", NoCharKey, NoParaKey, list, "", r.out,
                      r.raised, r.self),
                 r.self)

\* A call of get_modified_header_xml; the document returned is the
\* call's out.
Serialize ==
    /\ Len(hist) < MaxCalls
    /\ Step(Call("serialize", NoCharKey, NoParaKey, <<>>, "", get_modified_header_xml(self).ret, FALSE, get_modified_header_xml(self).self),
            get_modified_header_xml(self).self)

\* Any sequence of resolve calls and renderings on one converter.
Next ==
    \/ ResolveChar(MixedCharArgs)
    \/ ResolvePara(MixedParaArgs)
    \/ ProcessInlines(MixedTrees)
    \/ ProcessBlocks(Docs)

Spec == Init /\ [][Next]_vars

\* Sequences of direct character resolve calls.
NextChar == ResolveChar(CharArgs)

SpecChar == Init /\ [][NextChar]_vars

\* Sequences of direct paragraph resolve calls.
NextPara == ResolvePara(ParaArgs)

SpecPara == Init /\ [][NextPara]_vars

\* Sequences of inline renderings.
NextInlines == ProcessInlines(Trees)

SpecInlines == Init /\ [][NextInlines]_vars

\* One table laid out by a fresh converter.
NextTable == HandleTable(Tables)

SpecTable == Init /\ [][NextTable]_vars

\* Sequences of ordered lists.
NextList == HandleOrderedList(OrderedLists)

SpecList == Init /\ [][NextList]_vars

\* Renderings of inline trees and of documents on one converter.
NextRender ==
    \/ ProcessInlines(Trees)
    \/ ProcessBlocks(Docs)

SpecRender == Init /\ [][NextRender]_vars

\* Conversions: resolve calls, renderings of documents and serializations
\* of the header, on a converter constructed on any template, the
\* unparsable one included.
ConvertCharArgs == {<<0, {"BOLD"}, None, None>>, <<9, {"ITALIC"}, None, None>>}

ConvertParaArgs == {<<Some(2), None>>}

InitConvert ==
    /\ \E header \in Templates \cup {Unparsable} :
           self = NewConverter(header)
    /\ pre = self
    /\ hist = <<>>
    /\ peer = NoPeer

NextConvert ==
    \/ ResolveChar(ConvertCharArgs)
    \/ ResolvePara(ConvertParaArgs)
    \/ ProcessBlocks(Docs)
    \/ Serialize

SpecConvert == InitConvert /\ [][NextConvert]_vars

\* Tables with a head, up to two bodies and a foot.  Every row is empty or
\* holds one cell whose paragraph has a number of Str inlines that no other
\* row of the table has: 1 in the head, 2 in the foot, 3 and 4 in the
\* intermediate headers of the first and second body, 5 and up in the main
\* rows.
MarkedRow(k) == <<Cell(1, 1, <<Plain([i \in 1 .. k |-> Str], None)>>)>>

MainRows(b) ==
    {[j \in 1 .. n |-> MarkedRow(4 + (b - 1) * MaxRows + j)] : n \in 0 .. MaxRows}

Bodies(b) ==
    {Body(inter, main) : inter \in {<<>>, <<MarkedRow(2 + b)>>},
                         main \in MainRows(b)}

SectionedTables ==
    {Table(<<"ColWidthDefault">>, head, bodies, foot) :
        head \in {<<>>, <<MarkedRow(1)>>, <<<<>>, MarkedRow(1)>>},
        bodies \in {<<>>} \cup {<<a>> : a \in Bodies(1)}
                   \cup {<<a, b>> : a \in Bodies(1), b \in Bodies(2)},
        foot \in {<<>>, <<MarkedRow(2)>>}}

NextFlatten == HandleTable(SectionedTables)

SpecFlatten == Init /\ [][NextFlatten]_vars

\* Tables that declare 0 .. MaxCols columns, with or without a width hint,
\* and hold up to MaxRows rows of up to two cells that span one or two
\* columns or two rows, on a converter with a header tree.
WidthSpecs ==
    UNION {[1 .. n -> {"ColWidthDefault", "ColWidth"}] : n \in 0 .. MaxCols}

WidthCells == {Cell(1, 1, <<>>), Cell(1, 2, <<>>), Cell(2, 1, <<>>)}

WidthRows ==
    {<<>>} \cup {<<a>> : a \in WidthCells}
    \cup {<<a, b>> : a, b \in WidthCells}

WidthRowSeqs == UNION {[1 .. n -> WidthRows] : n \in 0 .. MaxRows}

WidthTables ==
    {Table(specs, <<>>, <<Body(<<>>, rs)>>, <<>>) :
        specs \in WidthSpecs, rs \in WidthRowSeqs}

InitWidth ==
    /\ \E header \in {FullHeader, NoContainerHeader} :
           self = NewConverter(header)
    /\ pre = self
    /\ hist = <<>>
    /\ peer = NoPeer

NextWidth == HandleTable(WidthTables)

SpecWidth == InitWidth /\ [][NextWidth]_vars

\* Tables of two columns whose first cell holds a table of two columns and
\* two rows; the cells of both span one or two rows and columns.
InnerRows ==
    {<<Cell(1, 1, <<>>)>>, <<Cell(2, 1, <<>>)>>, <<Cell(1, 2, <<>>)>>,
     <<Cell(2, 2, <<>>), Cell(1, 1, <<>>)>>}

InnerTables ==
    {Table(<<"ColWidthDefault", "ColWidthDefault">>, <<>>,
           <<Body(<<>>, <<a, <<Cell(1, 1, <<>>)>>>>)>>, <<>>) : a \in InnerRows}

OuterRowSeqs ==
    {rs \in UNION {[1 .. n -> WidthRows] : n \in 1 .. MaxRows} : rs[1] # <<>>}

\* The table with the blocks of its first cell replaced.
WithFirstCell(table, blocks) ==
    [table EXCEPT !.bodies[1].main_rows[1][1].blocks = blocks]

NestingTables ==
    {WithFirstCell(Table(<<"ColWidthDefault", "ColWidthDefault">>, <<>>,
                         <<Body(<<>>, rs)>>, <<>>),
                   <<inner>>) : rs \in OuterRowSeqs, inner \in InnerTables}

NextNesting == HandleTable(NestingTables)

SpecNesting == InitWidth /\ [][NextNesting]_vars

\* Two converters, each constructed on its own copy of a template, whose
\* calls interleave in any order: self and peer.self are the two instances,
\* hist and peer.hist the calls made on each.
TwoTemplates == {FullHeader, FallbackHeader}

TwoCharArgs == {<<0, {"BOLD"}, None, None>>, <<1, {"ITALIC"}, None, None>>}

TwoParaArgs == {<<Some(2), None>>}

TwoDocs ==
    {<<Para(<<Wrap("Strong", <<Str>>)>>, ParaStyles(Some(2), None, None))>>,
     <<SpanTable>>}

InitTwo ==
    /\ \E header \in TwoTemplates : self = NewConverter(header)
    /\ pre = self
    /\ hist = <<>>
    /\ \E header \in TwoTemplates :
           peer = [self |-> NewConverter(header), hist |-> <<>>]

\* The calls of both converters together stay within the bound.
TwoBudget == Len(hist) + Len(peer.hist) < MaxCalls

\* A call made on the second converter: what was called and what came back.
PeerCall(op, charKey, paraKey, input, ret, out, raised) ==
    [op |-> op, charKey |-> charKey, paraKey |-> paraKey, input |-> input,
     ret |-> ret, out |-> out, raised |-> raised]

\* The counters and the border fill id are attributes of the class: a call
\* on the second converter moves those of the first one too.
PeerStep_class_counters(call, post) ==
    /\ peer' = [self |-> post, hist |-> Append(peer.hist, call)]
    /\ self' = [self EXCEPT
                    !.max_char_pr_id = post.max_char_pr_id,
                    !.max_para_pr_id = post.max_para_pr_id,
                    !.max_border_fill_id = post.max_border_fill_id,
                    !.table_border_fill_id = post.table_border_fill_id]
    /\ UNCHANGED <<pre, hist>>

\* A call on the second converter assigns attributes of that instance only.
PeerStep(call, post) ==
    /\ peer' = [self |-> post, hist |-> Append(peer.hist, call)]
    /\ UNCHANGED <<self, pre, hist>>

PeerResolveChar(Args) ==
    \E a \in Args :
        LET r == get_or_create_char_pr(peer.self, a[1], a[2], a[3], a[4])
        IN  PeerStep(PeerCall("char", a, NoParaKey, <<>>, r.ret, <<>>, FALSE),
                     r.self)

PeerResolvePara(Args) ==
    \E a \in Args :
        LET r == get_or_create_para_pr(peer.self, a[1], a[2])
        IN  PeerStep(PeerCall("para", NoCharKey, a, <<>>, r.ret, <<>>, FALSE),
                     r.self)

PeerProcessBlocks(Inputs) ==
    \E blocks \in Inputs :
        LET r == process_blocks(peer.self, blocks)
        IN  PeerStep(PeerCall("blocks", NoCharKey, NoParaKey, blocks, "",
                              r.out, r.raised),
                     r.self)

NextTwo ==
    \/ TwoBudget /\ ResolveChar(TwoCharArgs)
    \/ TwoBudget /\ ResolvePara(TwoParaArgs)
    \/ TwoBudget /\ ProcessBlocks(TwoDocs)
    \/ TwoBudget /\ PeerResolveChar(TwoCharArgs)
    \/ TwoBudget /\ PeerResolvePara(TwoParaArgs)
    \/ TwoBudget /\ PeerProcessBlocks(TwoDocs)

SpecTwo == InitTwo /\ [][NextTwo]_vars

\* ------------------------------------------------------------------------
\* Properties.

\* The direct character resolve calls in the log.
CharCalls == {i \in DOMAIN hist : hist[i].op = "char"}

\* Call i is the first character resolve call with its arguments.
FirstWithKey(i) ==
    \A k \in CharCalls : k < i => hist[k].charKey # hist[i].charKey

\* Empty formats, no colour and no size.
PlainCombination(key) == key[2] = {} /\ key[3] = None /\ key[4] = None

\* A non-empty format set, a colour or a non-zero size.
FormattedCombination(key) ==
    key[2] # {} \/ TruthyS(key[3]) \/ TruthyN(key[4])

\* Two character resolve calls, the second later, with the same arguments.
SameCharCall(i, j) ==
    /\ i \in CharCalls /\ j \in CharCalls /\ i < j
    /\ hist[i].charKey = hist[j].charKey

\* The header was loaded with a charProperties container and holds
\* character property 0.
HeaderHasCharZero ==
    /\ self.header_root.loaded
    /\ self.header_root.charProperties
    /\ find(self.header_root.charPr, "0") # None

C2_NoOpIdentity ==
    (Last.op = "char" /\ PlainCombination(Last.charKey))
    => /\ Last.ret = str(Last.charKey[1])
       /\ self = pre

\* A plain call on a converter that has already synthesized and cached
\* records.
C2_Witness ==
    /\ Last.op = "char" /\ PlainCombination(Last.charKey)
    /\ DOMAIN self.char_pr_cache # {}
    /\ Len(self.header_root.charPr) > Len(self.header_xml_content.charPr)
    /\ Last.ret = "0"

\* The records of a collection that were not in the template.
Synthesized(coll) ==
    SubSeq(self.header_root[coll], Len(self.header_xml_content[coll]) + 1,
           Len(self.header_root[coll]))

\* The ids of the template's records of a collection.
TemplateIds(coll) ==
    {int(self.header_xml_content[coll][i].id) :
        i \in DOMAIN self.header_xml_content[coll]}

\* Every id in ids is above every template id of the collection.
AboveTemplate(ids, coll) ==
    \A n \in ids : \A t \in TemplateIds(coll) : n > t

\* C3: on a converter loaded from a template, after any sequence of resolve
\* and block operations, every synthesized record of the character,
\* paragraph and border/fill collections has an id above every template id
\* of its collection and no two synthesized records of a collection share
\* an id; every id handed out (cached or kept as the table border fill) is
\* above the template's ids and handed out for one combination only; and
\* no counter is lower after an operation than before it.
C3_MonotonicAllocation ==
    self.header_root.loaded =>
      /\ \A coll \in {"charPr", "paraPr", "borderFill"} :
           LET new == Synthesized(coll)
           IN  /\ AboveTemplate({int(new[i].id) : i \in DOMAIN new}, coll)
               /\ \A i, j \in DOMAIN new :
                      new[i].id = new[j].id => i = j
      /\ AboveTemplate({int(self.char_pr_cache[k]) :
                           k \in DOMAIN self.char_pr_cache}, "charPr")
      /\ AboveTemplate({int(self.para_pr_cache[k]) :
                           k \in DOMAIN self.para_pr_cache}, "paraPr")
      /\ \A k1, k2 \in DOMAIN self.char_pr_cache :
             self.char_pr_cache[k1] = self.char_pr_cache[k2] => k1 = k2
      /\ \A k1, k2 \in DOMAIN self.para_pr_cache :
             self.para_pr_cache[k1] = self.para_pr_cache[k2] => k1 = k2
      /\ self.table_border_fill_id # None
           => AboveTemplate({self.table_border_fill_id[1]}, "borderFill")
      /\ self.max_char_pr_id >= pre.max_char_pr_id
      /\ self.max_para_pr_id >= pre.max_para_pr_id
      /\ self.max_border_fill_id >= pre.max_border_fill_id

\* A template whose records are not in ascending id order, with two
\* synthesized character properties, a synthesized paragraph property and
\* a synthesized border fill.
C3_Witness ==
    /\ self.header_root.loaded
    /\ \E i, j \in DOMAIN self.header_xml_content.charPr :
           /\ i < j
           /\ int(self.header_xml_content.charPr[i].id)
                > int(self.header_xml_content.charPr[j].id)
    /\ Len(Synthesized("charPr")) >= 2
    /\ Len(Synthesized("paraPr")) >= 1
    /\ Len(Synthesized("borderFill")) >= 1
    /\ self.max_char_pr_id > pre.max_char_pr_id

\* The table a _handle_table call returned, if it returned one.
ReturnedTable == Last.op = "table" /\ ~Last.raised /\ Last.out # <<>>

\* The positions of an emitted cell's rowSpan x colSpan footprint.
Footprint(tc) ==
    {<<tc.rowAddr + r, tc.colAddr + c>> :
        r \in 0 .. tc.rowSpan - 1, c \in 0 .. tc.colSpan - 1}

\* The positions (row, col) with row < rowCnt and col < colCnt.
Grid(tbl) == (0 .. tbl.rowCnt - 1) \X (0 .. tbl.colCnt - 1)

\* The emitted cells whose footprint covers a position.
Covering(tbl, pos) ==
    {i \in DOMAIN tbl.cells : pos \in Footprint(tbl.cells[i])}

\* Every grid position is covered by exactly one emitted cell.
CoveredOnce(tbl) ==
    \A pos \in Grid(tbl) : Cardinality(Covering(tbl, pos)) = 1

\* C4 as stated: for a table whose cells span any number >= 1 of rows and
\* columns, after _handle_table has walked all rows every position (row,
\* col) with row < n and col < declaredColumns is covered by exactly one
\* emitted cell's footprint.
C4_EveryTableCovered ==
    ReturnedTable => CoveredOnce(Last.out[1])

\* C4, amended: after _handle_table has walked all rows, the occupancy set
\* is the union of the emitted cells' footprints and no cell's own address
\* lies in another cell's footprint; every grid position is covered by
\* exactly one emitted cell, with no footprint reaching outside the grid,
\* exactly when no cell's span reached a position that was already
\* occupied and the occupancy set equals the grid.
C4_OccupancyClosure ==
    ReturnedTable =>
      LET tbl == Last.out[1]
      IN  /\ tbl.occupied_cells
               = UNION {Footprint(tbl.cells[i]) : i \in DOMAIN tbl.cells}
          /\ \A i \in DOMAIN tbl.cells :
               Covering(tbl, <<tbl.cells[i].rowAddr, tbl.cells[i].colAddr>>)
                 = {i}
          /\ (/\ CoveredOnce(tbl)
              /\ \A i \in DOMAIN tbl.cells :
                     Footprint(tbl.cells[i]) \subseteq Grid(tbl))
             <=> (~tbl.collided /\ tbl.occupied_cells = Grid(tbl))

\* A two-row, two-column table whose first cell spans both rows and whose
\* second row's only cell is therefore moved to column 1: covered exactly
\* once.
C4_Witness ==
    /\ ReturnedTable
    /\ LET tbl == Last.out[1]
       IN  /\ tbl.rowCnt = 2 /\ tbl.colCnt = 2
           /\ CoveredOnce(tbl)
           /\ ~tbl.collided /\ tbl.occupied_cells = Grid(tbl)
           /\ \E i \in DOMAIN tbl.cells :
                 /\ tbl.cells[i].rowSpan = 2
                 /\ tbl.cells[i].colAddr = 0
           /\ \E i \in DOMAIN tbl.cells :
                 /\ tbl.cells[i].rowAddr = 1
                 /\ tbl.cells[i].colAddr = 1

\* The last call was a character resolve call with the given formats on a
\* header that was loaded with a charProperties container and holds the
\* base record.
ResolvedOnBase(formats) ==
    /\ Last.op = "char" /\ Last.charKey[2] = formats
    /\ pre.header_root.loaded /\ pre.header_root.charProperties
    /\ find(pre.header_root.charPr, str(Last.charKey[1])) # None

\* The record in the header that carries the id the last call returned.
ResolvedRecord == find(self.header_root.charPr, Last.ret)

\* C5: for every base record, also one that carries a subscript or a
\* superscript marker, resolving a format set with both SUPERSCRIPT and
\* SUBSCRIPT returns the id of a record with the superscript marker and no
\* subscript marker, and resolving SUBSCRIPT alone returns the id of a
\* record with the subscript marker and no superscript marker.
C5_ScriptExclusion ==
    /\ (\E fs \in SUBSET {"BOLD", "ITALIC", "UNDERLINE", "STRIKEOUT"} :
           ResolvedOnBase(fs \cup {"SUPERSCRIPT", "SUBSCRIPT"}))
       => /\ ResolvedRecord # None
          /\ ResolvedRecord[1].supscript /\ ~ResolvedRecord[1].subscript
    /\ ResolvedOnBase({"SUBSCRIPT"})
       => /\ ResolvedRecord # None
          /\ ResolvedRecord[1].subscript /\ ~ResolvedRecord[1].supscript

\* Both script formats resolved on a base record that carries the
\* subscript marker.
C5_Witness ==
    /\ ResolvedOnBase({"SUPERSCRIPT", "SUBSCRIPT"})
    /\ find(pre.header_root.charPr, str(Last.charKey[1]))[1].subscript
    /\ ResolvedRecord # None
    /\ ResolvedRecord[1].supscript /\ ~ResolvedRecord[1].subscript
    /\ Last.newCharPr = 1

\* The cache keys of the text runs an inline rendering emitted: character
\* property 0 with each run's formats, colour and size.
RunKeys ==
    {<<"0", Last.out[i].active_formats, Last.out[i].color,
       Last.out[i].font_size>> :
        i \in {j \in DOMAIN Last.out : Last.out[j].tag = "run"}}

\* The rendering's combinations, among ks, that were not resolved before it.
NewKeys(ks) == {k \in ks : k \notin DOMAIN pre.char_pr_cache}

\* The converter the last call started from was loaded from a header with
\* a charProperties container and character property 0.
PreHasCharZero ==
    /\ pre.header_root.loaded
    /\ pre.header_root.charProperties
    /\ find(pre.header_root.charPr, "0") # None

\* C6 as stated: rendering an inline tree adds exactly one character
\* property record per distinct combination of its text runs other than
\* (no formats, no colour, no size), however many runs use it (counting
\* the combinations this converter has not resolved before).
C6_OnePerCombination ==
    Last.op = "inlines"
    => Last.newCharPr
         = Cardinality(NewKeys({k \in RunKeys : ~PlainCombination(k)}))

\* C6, amended: on a converter loaded from a header with a charProperties
\* container and character property 0, rendering an inline tree adds
\* exactly one character property record per distinct combination of its
\* text runs that has a format, a colour or a non-zero size and was not
\* resolved before, however many runs use it; runs with the same
\* combination refer to the same id, runs with different such combinations
\* to different ids, and runs with none of the three to character property
\* 0.  Without a loaded header, without the container or without character
\* property 0 the rendering adds no record.
C6_OnePerFormattedCombination ==
    Last.op = "inlines"
    => LET formatted == {k \in RunKeys : FormattedCombination(k)}
           runs == {i \in DOMAIN Last.out : Last.out[i].tag = "run"}
           key(i) == <<"0", Last.out[i].active_formats, Last.out[i].color,
                       Last.out[i].font_size>>
       IN  /\ PreHasCharZero
                => /\ Last.newCharPr = Cardinality(NewKeys(formatted))
                   /\ \A i, j \in runs :
                        (key(i) \in formatted /\ key(j) \in formatted)
                        => ((Last.out[i].charPrIDRef
                               = Last.out[j].charPrIDRef)
                            <=> key(i) = key(j))
           /\ ~PreHasCharZero => Last.newCharPr = 0
           /\ \A i, j \in runs :
                key(i) = key(j)
                => Last.out[i].charPrIDRef = Last.out[j].charPrIDRef
           /\ \A i \in runs :
                key(i) \notin formatted => Last.out[i].charPrIDRef = "0"

\* A bold run, an italic run and a bold and italic run on a fresh
\* converter: three new records; and a later rendering that repeats bold
\* and italic runs: none.
C6_Witness ==
    /\ Len(hist) = 2
    /\ hist[1].op = "inlines" /\ hist[1].input = BoldItalicTree
    /\ hist[1].newCharPr = 3
    /\ Last.op = "inlines" /\ Last.input = RepeatTree
    /\ Last.newCharPr = 0
    /\ PreHasCharZero
    /\ Cardinality({Last.out[i].charPrIDRef : i \in DOMAIN Last.out}) = 2

\* Cell j is the cell emitted right after cell i, in the same row.
NextInRow(tbl, i, j) ==
    /\ i \in DOMAIN tbl.cells /\ j = i + 1 /\ j \in DOMAIN tbl.cells
    /\ tbl.cells[i].rowAddr = tbl.cells[j].rowAddr

\* A position is covered by the footprint of a cell of an earlier row.
CoveredFromAbove(tbl, pos) ==
    \E k \in Covering(tbl, pos) : tbl.cells[k].rowAddr < pos[1]

\* C7: within a row, the cell that follows a cell at column c with colSpan
\* k gets a column address >= c + k, and exactly c + k when and only when
\* that position is not covered by a span from an earlier row.
C7_ColumnAdvance ==
    ReturnedTable =>
      LET tbl == Last.out[1]
      IN  \A i, j \in DOMAIN tbl.cells :
            NextInRow(tbl, i, j)
            => LET a == tbl.cells[i]
                   b == tbl.cells[j]
               IN  /\ b.colAddr >= a.colAddr + a.colSpan
                   /\ (b.colAddr = a.colAddr + a.colSpan)
                      <=> ~CoveredFromAbove(tbl,
                              <<a.rowAddr, a.colAddr + a.colSpan>>)

\* A table of two rows and two columns whose cell (0, 0) has colSpan 2:
\* row 0's second cell is at column 2.
C7_Witness ==
    /\ ReturnedTable
    /\ LET tbl == Last.out[1]
       IN  /\ tbl.rowCnt = 2 /\ tbl.colCnt = 2
           /\ Len(tbl.cells) >= 2
           /\ tbl.cells[1].rowAddr = 0 /\ tbl.cells[1].colAddr = 0
           /\ tbl.cells[1].colSpan = 2
           /\ tbl.cells[2].rowAddr = 0 /\ tbl.cells[2].colAddr = 2

\* The number of marker paragraphs an item's blocks give.
RECURSIVE MarkedBlocks(_)
MarkedBlocks(blocks) ==
    IF blocks = <<>> THEN 0
    ELSE (IF Head(blocks).t \in {"Plain", "Para"} THEN 1 ELSE 0)
         + MarkedBlocks(Tail(blocks))

\* The numbers the markers of items i_1 .. i_n show when the first item
\* shows number n: one per Plain or Para block of each item.
RECURSIVE VisibleNumbers(_, _)
VisibleNumbers(items, n) ==
    IF items = <<>> THEN <<>>
    ELSE [i \in 1 .. MarkedBlocks(Head(items)) |-> n]
         \o VisibleNumbers(Tail(items), n + 1)

\* C8: an ordered list with start value s and items i_1 .. i_n shows
\* s + k - 1 as the marker of item i_k; a list starting at 5 has the first
\* visible marker "5.".
C8_HonorsStart ==
    (Last.op = "olist" /\ ~Last.raised)
    => LET numbers == VisibleNumbers(Last.input.items, Last.input.start)
       IN  /\ Len(Last.out) = Len(numbers)
           /\ \A i \in DOMAIN Last.out :
                Last.out[i].marker = str(numbers[i]) \o ". "

\* An ordered list starting at 5 whose first two visible markers are "1."
\* and "2.".
C8_Witness ==
    /\ Last.op = "olist" /\ Last.input.start = 5
    /\ Len(Last.out) >= 2
    /\ Last.out[1].marker = "1. " /\ Last.out[2].marker = "2. "

\* The converted pair of a paragraph resolve call.
ConvertedPair(call) ==
    <<to_hwpunit(call.paraKey[1]), to_hwpunit(call.paraKey[2])>>

\* C9: a paragraph resolve call whose left indent and first-line indent
\* are both 0 returns the Normal style's paragraph property id and leaves
\* the converter as it was, also after other pairs were resolved and
\* cached.
C9_ZeroReturnsNormal ==
    (Last.op = "para" /\ ConvertedPair(Last) = <<0, 0>>)
    => /\ Last.ret = str(pre.normal_para_pr_id)
       /\ self = pre

\* A zero call on a converter that has synthesized and cached a paragraph
\* property, with a Normal style that refers to paragraph property 3.
C9_Witness ==
    /\ Last.op = "para" /\ Last.paraKey = <<Some(0), Some(0)>>
    /\ DOMAIN self.para_pr_cache # {}
    /\ Len(Synthesized("paraPr")) >= 1
    /\ Last.ret = "3"

\* The paragraph resolve calls in the log.
ParaCalls == {i \in DOMAIN hist : hist[i].op = "para"}

\* The converted pairs, other than (0, 0), the calls in the log used.
UsedPairs ==
    {ConvertedPair(hist[i]) : i \in ParaCalls} \ {<<0, 0>>}

\* The synthesized paragraph properties whose margins are a pair's values.
RecordsOf(pair) ==
    {k \in DOMAIN Synthesized("paraPr") :
        Synthesized("paraPr")[k].defaultMargin
          = Margin(str(pair[2]), str(pair[1]))}

\* Calls with the same converted pair returned the same id.
SamePairSameId ==
    \A i, j \in ParaCalls :
        ConvertedPair(hist[i]) = ConvertedPair(hist[j])
        => hist[i].ret = hist[j].ret

\* C10 as stated: after any sequence of paragraph resolve calls, calls with
\* the same converted non-zero pair returned the same id and the collection
\* holds exactly one synthesized record per distinct converted non-zero
\* pair used.
C10_OneRecordPerPair ==
    /\ SamePairSameId
    /\ Len(Synthesized("paraPr")) = Cardinality(UsedPairs)

\* C10, amended: after any sequence of paragraph resolve calls, calls with
\* the same converted pair returned the same id; on a converter loaded from
\* a header with a paraProperties container and the Normal style's
\* paragraph property or paragraph property 0, calls with different
\* non-zero pairs returned different ids and the collection holds exactly
\* one synthesized record per distinct converted non-zero pair used, with
\* that pair's margins; otherwise it holds no synthesized record.
C10_DedupByConvertedPair ==
    /\ SamePairSameId
    /\ IF /\ self.header_root.loaded
          /\ self.header_root.paraProperties
          /\ ParaBaseNode(self) # None
       THEN /\ Len(Synthesized("paraPr")) = Cardinality(UsedPairs)
            /\ \A pair \in UsedPairs : Cardinality(RecordsOf(pair)) = 1
            /\ \A i, j \in ParaCalls :
                 (/\ ConvertedPair(hist[i]) # ConvertedPair(hist[j])
                  /\ ConvertedPair(hist[i]) # <<0, 0>>)
                 => hist[i].ret # hist[j].ret
       ELSE Len(Synthesized("paraPr")) = 0

\* Two calls whose arguments differ but convert to the same non-zero pair,
\* and a call with another pair: two records, the first two calls sharing
\* an id.
C10_Witness ==
    /\ Len(hist) = 3
    /\ hist[1].paraKey # hist[2].paraKey
    /\ ConvertedPair(hist[1]) = ConvertedPair(hist[2])
    /\ ConvertedPair(hist[1]) # <<0, 0>>
    /\ hist[1].ret = hist[2].ret
    /\ hist[3].ret # hist[1].ret
    /\ Cardinality(UsedPairs) = 2
    /\ Len(Synthesized("paraPr")) = 2

\* The last call was a character resolve call that was not answered from
\* the cache, with some formatting, on a base id that no record of the
\* collection carries.
UnresolvedBase ==
    /\ Last.op = "char"
    /\ ~CharNoFormatting(Last.charKey[2], Last.charKey[3], Last.charKey[4])
    /\ <<str(Last.charKey[1]), Last.charKey[2], Last.charKey[3],
         Last.charKey[4]>> \notin DOMAIN pre.char_pr_cache
    /\ find(pre.header_root.charPr, str(Last.charKey[1])) = None

\* C11 as stated: a character resolve call with some formatting on a base
\* id absent from the collection returns the requested base id and
\* synthesizes no record.
C11_AbsentBaseReturned ==
    UnresolvedBase
    => /\ Last.ret = str(Last.charKey[1])
       /\ self = pre

\* C11, amended: a character resolve call with some formatting on a base
\* id absent from the collection returns the requested base id and leaves
\* the converter as it was only when character property 0 is absent too
\* (or no header was loaded); when character property 0 exists, the call
\* clones it under the next id, returns that id and caches it, and the
\* clone is appended when the charProperties container exists.
C11_AbsentBaseFallsBack ==
    UnresolvedBase
    => LET zero == find(pre.header_root.charPr, "0")
       IN  IF zero = None
           THEN /\ Last.ret = str(Last.charKey[1])
                /\ self = pre
           ELSE /\ Last.ret = str(pre.max_char_pr_id + 1)
                /\ self.max_char_pr_id = pre.max_char_pr_id + 1
                /\ self.char_pr_cache[<<str(Last.charKey[1]),
                       Last.charKey[2], Last.charKey[3], Last.charKey[4]>>]
                     = Last.ret
                /\ IF pre.header_root.charProperties
                   THEN /\ Last.newCharPr = 1
                        /\ ResolvedRecord
                             = Some(ApplyCharFormats(zero[1], Last.ret,
                                        Last.charKey[2], Last.charKey[3],
                                        Last.charKey[4]))
                   ELSE Last.newCharPr = 0

\* Bold resolved on the absent base 9 of a header whose character property
\* 0 carries a subscript marker: a new record, bold and subscript.
C11_Witness ==
    /\ UnresolvedBase
    /\ Last.charKey[1] = 9 /\ Last.charKey[2] = {"BOLD"}
    /\ Last.newCharPr = 1
    /\ Last.ret # "9"
    /\ ResolvedRecord # None
    /\ ResolvedRecord[1].bold /\ ResolvedRecord[1].subscript

\* A converter that has no header tree: the template was absent or
\* ET.fromstring rejected it.
NoTree == ~pre.header_root.loaded

\* C12 (MalformedTemplate): on a converter constructed on an absent or
\* unparsable template, every later operation (character resolve, paragraph
\* resolve, rendering of a document with tables that declare columns,
\* serialization) completes without raising.
C12_MalformedNeverRaises ==
    (NoTree /\ NoColumnTable \notin {Last.input[i] : i \in DOMAIN Last.input})
    => ~Last.raised

\* A table with one row is rendered on a converter without a header tree:
\* the call raises after the border/fill id has been assigned.
C12_Witness ==
    /\ NoTree
    /\ Last.op = "blocks"
    /\ Last.input = <<SpanTable>>
    /\ Last.raised
    /\ pre.table_border_fill_id = None
    /\ self.table_border_fill_id = Some(1)

\* The ids a piece of body markup references in one collection ("charPr",
\* "paraPr" or "borderFill"): charPrIDRef of runs, of list markers and of
\* the run around a table, paraPrIDRef of paragraphs and of the paragraph
\* around a table, borderFillIDRef of tables and cells.
RECURSIVE Refs(_, _)
RECURSIVE ElemRefs(_, _)
Refs(markup, coll) == UNION {ElemRefs(markup[i], coll) : i \in DOMAIN markup}

ElemRefs(e, coll) ==
    IF e.tag = "run" THEN (IF coll = "charPr" THEN {e.charPrIDRef} ELSE {})
    ELSE IF e.tag = "p"
    THEN (IF coll = "paraPr" THEN {e.paraPrIDRef} ELSE {})
         \cup (IF coll = "charPr" /\ e.marker # "" THEN {"0"} ELSE {})
         \cup Refs(e.runs, coll)
    ELSE IF e.tag = "tbl"
    THEN (IF coll = "paraPr" THEN {e.paraPrIDRef} ELSE {})
         \cup (IF coll = "charPr" THEN {e.charPrIDRef} ELSE {})
         \cup (IF coll = "borderFill" THEN {e.borderFillIDRef} ELSE {})
         \cup Refs(e.cells, coll)
    ELSE IF e.tag = "tc"
    THEN (IF coll = "borderFill" THEN {e.borderFillIDRef} ELSE {})
         \cup Refs(e.content, coll)
    ELSE {}

\* The ids of the records of a collection of the header.
Resident(coll) ==
    {self.header_root[coll][i].id : i \in DOMAIN self.header_root[coll]}

Collections == {"charPr", "paraPr", "borderFill"}

\* The renderings of documents that returned markup.
Rendered == {i \in DOMAIN hist : hist[i].op = "blocks" /\ ~hist[i].raised}

\* C13: when the header is serialized, every charPrIDRef, paraPrIDRef and
\* borderFillIDRef in the body markup rendered so far is the id of a record
\* of the corresponding collection of the header.
C13_ReferencesResident ==
    Last.op = "serialize"
    => \A i \in Rendered : \A coll \in Collections :
           Refs(hist[i].out, coll) \subseteq Resident(coll)

HeadingDoc == <<Para(<<Str>>, None), Header(7, <<Wrap("Emph", <<Str>>)>>)>>

\* A paragraph and a heading were rendered on the complete template, whose
\* paragraph properties are 0, 3 and 4, and the header was serialized: the
\* heading references paragraph property 1.
C13_Witness ==
    /\ Len(hist) = 2
    /\ self.header_xml_content = FullHeader
    /\ hist[1].op = "blocks" /\ hist[1].input = HeadingDoc /\ ~hist[1].raised
    /\ Last.op = "serialize"
    /\ Refs(hist[1].out, "paraPr") = {"3", "1"}
    /\ Resident("paraPr") = {"0", "3", "4"}
    /\ Refs(hist[1].out, "charPr") \subseteq Resident("charPr")

\* The border fills appended to the header since construction.
AppendedBorderFills ==
    Len(self.header_root.borderFill) - Len(self.header_xml_content.borderFill)

\* The documents rendered so far hold a table with at least one row (at the
\* top level; a table in a cell is reached only through such a table).
HasRows(block) == block.t = "Table" /\ flatten_rows(block) # <<>>

TableRendered ==
    \E i \in DOMAIN hist :
        /\ hist[i].op = "blocks"
        /\ \E j \in DOMAIN hist[i].input : HasRows(hist[i].input[j])

\* C14: on a converter with a header tree, after any sequence of
\* renderings exactly one border fill has been appended if a table with
\* rows was rendered and none otherwise; it carries table_border_fill_id,
\* and every table and cell of the markup, nested ones included, references
\* that id.
C14_OneBorderFill ==
    self.header_root.loaded
    => /\ AppendedBorderFills = IF TableRendered THEN 1 ELSE 0
       /\ TableRendered
          => /\ self.table_border_fill_id # None
             /\ self.header_root.borderFills
             /\ self.header_root.borderFill[Len(self.header_root.borderFill)].id = str(self.table_border_fill_id[1])
       /\ ~TableRendered => self.table_border_fill_id = None
       /\ \A i \in Rendered :
              Refs(hist[i].out, "borderFill") \subseteq (IF self.table_border_fill_id = None THEN {} ELSE {str(self.table_border_fill_id[1])})

\* Two documents with tables, one of them nested in a cell, were rendered on
\* the template that has no border fill container: one border fill was
\* appended and all three tables reference it.
C14_Witness ==
    /\ Len(hist) = 2
    /\ self.header_xml_content = NoContainerHeader
    /\ hist[1].op = "blocks" /\ hist[1].input = <<SpanTable>>
    /\ hist[2].op = "blocks" /\ hist[2].input[1] = NestedTable
    /\ ~hist[1].raised /\ ~hist[2].raised
    /\ AppendedBorderFills = 1
    /\ Refs(hist[1].out, "borderFill") = {"3"}
    /\ Refs(hist[2].out, "borderFill") = {"3"}
    /\ hist[2].out[1].cells[1].content[1].tag = "tbl"

\* The list nodes of a sequence of blocks: every BulletList and OrderedList,
\* those nested in list items included.
RECURSIVE ListNodes(_)
RECURSIVE ItemsListNodes(_)
ListNodes(blocks) ==
    IF blocks = <<>> THEN 0
    ELSE (IF Head(blocks).t \in {"BulletList", "OrderedList"}
          THEN 1 + ItemsListNodes(Head(blocks).items) ELSE 0)
         + ListNodes(Tail(blocks))

ItemsListNodes(items) ==
    IF items = <<>> THEN 0
    ELSE ListNodes(Head(items)) + ItemsListNodes(Tail(items))

\* The ids of the numbering definitions of the header.
NumberingIds(root) == {root.numbering[i].id : i \in DOMAIN root.numbering}

\* C15: rendering a document with k list nodes appends k numbering
\* definitions with pairwise distinct ids to the header.
C15_NumberingPerList ==
    (Last.op = "blocks" /\ ~Last.raised)
    => /\ Len(self.header_root.numbering)
            = Len(pre.header_root.numbering) + ListNodes(Last.input)
       /\ Cardinality(NumberingIds(self.header_root))
            = Len(self.header_root.numbering)

ListDoc ==
    <<Para(<<Str>>, ParaStyles(None, Some(2), Some(-1))), CodeBlock,
      BulletList(<<<<Plain(<<Str>>, None)>>>>)>>

\* A document with one bullet list was rendered on the complete template:
\* the item is a paragraph with a literal marker run and the header's
\* numbering definitions are the template's.
C15_Witness ==
    /\ Last.op = "blocks" /\ Last.input = ListDoc /\ ~Last.raised
    /\ self.header_xml_content = FullHeader
    /\ ListNodes(Last.input) = 1
    /\ Last.out[Len(Last.out)].marker = BulletMarker
    /\ self.header_root.numbering = pre.header_root.numbering
    /\ self.header_root.numbering = FullHeader.numbering

\* The number of paragraphs and tables the blocks of list items must
\* contribute when none is dropped: one marker paragraph for a Plain or
\* Para, and for any other block what _process_blocks makes of it.
RECURSIVE ItemMarkup(_)
RECURSIVE ItemsMarkup(_)
ItemMarkup(blocks) ==
    IF blocks = <<>> THEN 0
    ELSE (IF Head(blocks).t \in {"Plain", "Para"} THEN 1
          ELSE Len(process_block(pre, Head(blocks)).out))
         + ItemMarkup(Tail(blocks))

ItemsMarkup(items) ==
    IF items = <<>> THEN 0
    ELSE ItemMarkup(Head(items)) + ItemsMarkup(Tail(items))

\* C16: no block inside a list item is dropped: a nested list and any
\* other block that is not a paragraph contribute to the list's markup what
\* the block renderer makes of them.
C16_NoItemBlockDropped ==
    (Last.op = "olist" /\ ~Last.raised)
    => Len(Last.out) = ItemsMarkup(Last.input.items)

\* An ordered list whose first item holds a paragraph and a bullet list of
\* one item: the markup has the paragraphs of the first and third item and
\* nothing of the nested list.
C16_Witness ==
    /\ Last.op = "olist" /\ ~Last.raised
    /\ Len(Last.input.items) = 3
    /\ Last.input.items[1][2].t = "BulletList"
    /\ Len(process_block(pre, Last.input.items[1][2]).out) = 1
    /\ Len(Last.out) = 2
    /\ Last.out[1].marker = "1. "
    /\ Last.out[2].marker = "3. "

\* The records the first n calls appended to a collection (field is the
\* call record's newCharPr, newParaPr or newBorderFill).
RECURSIVE Added(_, _)
Added(field, n) == IF n = 0 THEN 0 ELSE hist[n][field] + Added(field, n - 1)

\* The records the template holds in a collection's container.
TemplateChildren(coll) ==
    Len(self.header_xml_content[coll]) - self.header_xml_content.stray[coll]

\* The itemCnt a container must carry: its template records plus the
\* appended ones.
ExpectedCount(coll, field) ==
    Some(str(TemplateChildren(coll) + Added(field, Len(hist))))

\* C17: after get_modified_header_xml on a converter with a header tree,
\* every collection container that exists (charProperties, paraProperties,
\* borderFills) carries as itemCnt the number of its records, the
\* template's plus the appended ones, and the document returned is that
\* tree.
C17_ItemCounts ==
    (Last.op = "serialize" /\ self.header_root.loaded)
    => /\ self.header_root.charProperties
          => self.header_root.itemCnt.charProperties = ExpectedCount("charPr", "newCharPr")
       /\ self.header_root.paraProperties
          => self.header_root.itemCnt.paraProperties = ExpectedCount("paraPr", "newParaPr")
       /\ self.header_root.borderFills
          => self.header_root.itemCnt.borderFills = ExpectedCount("borderFill", "newBorderFill")
       /\ Last.out = Some(self.header_root)

\* On the complete template a character property was synthesized, a table
\* with a bold cell and an indented paragraph was rendered, and the header
\* was serialized: the counts went from 3, 3 and 2 to 4, 4 and 3.
C17_Witness ==
    /\ Len(hist) = 3
    /\ self.header_xml_content = FullHeader
    /\ hist[1].op = "char" /\ hist[1].newCharPr = 1
    /\ hist[2].op = "blocks" /\ hist[2].input = <<SpanTable>>
    /\ hist[2].newCharPr = 0 /\ hist[2].newParaPr = 1
    /\ hist[2].newBorderFill = 1
    /\ Last.op = "serialize"
    /\ pre.header_root.itemCnt = ItemCnt(Some("3"), Some("3"), Some("2"))
    /\ self.header_root.itemCnt = ItemCnt(Some("4"), Some("4"), Some("3"))

\* The node kinds the two dispatch loops have a branch for.
SupportedInlines ==
    {"Str", "Space", "Span", "LineBreak"} \cup DOMAIN WrapperFormat

SupportedBlocks ==
    {"Para", "Plain", "Header", "BulletList", "OrderedList", "Table"}

\* An inline tree without its unsupported nodes, at any depth.
RECURSIVE StripInlines(_)
StripInlines(inlines) ==
    IF inlines = <<>> THEN <<>>
    ELSE (IF Head(inlines).t \in SupportedInlines
          THEN <<[Head(inlines) EXCEPT !.c = StripInlines(@)]>>
          ELSE <<>>)
         \o StripInlines(Tail(inlines))

\* A document without its unsupported blocks.
StripBlocks(blocks) ==
    SelectSeq(blocks, LAMBDA b : b.t \in SupportedBlocks)

RunsOf(out) == SelectSeq(out, LAMBDA e : e.tag = "run")

\* The format sets the runs of a rendering were resolved with, in order.
RunFormats(out) == [i \in DOMAIN RunsOf(out) |-> RunsOf(out)[i].active_formats]

\* For every text leaf (Str, Space) of an inline tree, in document order,
\* the formats of the wrappers on its path from the root: path is the set
\* collected above the sequence.
RECURSIVE PathFormats(_, _)
PathFormats(inlines, path) ==
    IF inlines = <<>> THEN <<>>
    ELSE (IF Head(inlines).t \in {"Str", "Space"} THEN <<path>>
          ELSE IF Head(inlines).t \in DOMAIN WrapperFormat
          THEN PathFormats(Head(inlines).c,
                           path \cup {WrapperFormat[Head(inlines).t]})
          ELSE IF Head(inlines).t = "Span"
          THEN PathFormats(Head(inlines).c,
                           path \cup SpanFormats(Head(inlines).styles))
          ELSE <<>>)
         \o PathFormats(Tail(inlines), path)

\* C19: the format set of every run is the union of the formats of the
\* wrappers on its own path from the root; what a wrapper adds does not
\* reach the runs of its later siblings.
C19_NoFormatLeak ==
    Last.op = "inlines" => RunFormats(Last.out) = PathFormats(Last.input, {})

\* Strong, a space, Emph, and Strong around Emph were rendered: the space
\* after the bold subtree has no format, the italic sibling is not bold.
C19_Witness ==
    /\ Last.op = "inlines"
    /\ Last.input = BoldItalicTree
    /\ RunFormats(Last.out) = <<{"BOLD"}, {}, {"ITALIC"}, {"BOLD", "ITALIC"}>>

\* The colour and size the runs of a rendering were resolved with, in order.
RunInks(out) == [i \in DOMAIN RunsOf(out) |-> <<RunsOf(out)[i].color, RunsOf(out)[i].font_size>>]

\* The value of a style key for the subtree of a Span: the Span's own value
\* when its styles hold the key (for 'font-size' that is None when the size
\* did not parse), the value inherited from outside otherwise.
SpanColor(styles, inherited) ==
    IF styles.color # None THEN styles.color ELSE inherited

SpanSize(styles, inherited) ==
    IF styles.font_size # None THEN styles.font_size[1] ELSE inherited

\* For every text leaf of an inline tree, in document order, the colour and
\* size of the innermost Span around it that sets them (color and size are
\* the values in force above the sequence).
RECURSIVE PathInks(_, _, _)
PathInks(inlines, color, size) ==
    IF inlines = <<>> THEN <<>>
    ELSE (IF Head(inlines).t \in {"Str", "Space"} THEN <<<<color, size>>>>
          ELSE IF Head(inlines).t \in DOMAIN WrapperFormat
          THEN PathInks(Head(inlines).c, color, size)
          ELSE IF Head(inlines).t = "Span"
          THEN PathInks(Head(inlines).c,
                        SpanColor(Head(inlines).styles, color),
                        SpanSize(Head(inlines).styles, size))
          ELSE <<>>)
         \o PathInks(Tail(inlines), color, size)

\* C20: every run resolves with the colour and size of the innermost Span
\* around it that sets them; a run that follows a Span in the same parent
\* resolves with the values in force before that Span.
C20_SpanScope ==
    Last.op = "inlines" => RunInks(Last.out) = PathInks(Last.input, None, None)

\* A red 12pt Span holding text, bold text, a blue Span whose size did not
\* parse, and text again, followed by text outside: red 12 before and after
\* the inner Span, blue inside it, nothing after the outer Span.
C20_Witness ==
    /\ Last.op = "inlines"
    /\ Last.input = SpanTree
    /\ RunInks(Last.out)
         = << <<Some(RED), Some(12)>>, <<Some(RED), Some(12)>>,
              <<Some(BLUE), None>>, <<Some(RED), Some(12)>>,
              <<None, None>> >>

\* The first n records of a collection of the header.
FirstRecords(root, coll, n) == SubSeq(root[coll], 1, n)

\* A collection after the last call starts with the records, unchanged and
\* in the same order, that it held before the call.
KeepsRecords(coll) ==
    /\ Len(self.header_root[coll]) >= Len(pre.header_root[coll])
    /\ FirstRecords(self.header_root, coll, Len(pre.header_root[coll])) = pre.header_root[coll]

\* A collection still starts with the template's records as they were given.
KeepsTemplate(coll) ==
    /\ Len(self.header_root[coll]) >= Len(self.header_xml_content[coll])
    /\ FirstRecords(self.header_root, coll, Len(self.header_xml_content[coll])) = self.header_xml_content[coll]

\* C21: a synthesis leaves every record that existed before it as it was:
\* the template records, the cloned base among them, and the records
\* synthesized earlier keep their attributes and markers; a call only adds
\* records behind them.
C21_BaseUntouched ==
    /\ KeepsRecords("charPr") /\ KeepsTemplate("charPr")
    /\ KeepsRecords("paraPr") /\ KeepsTemplate("paraPr")

\* On the complete template, character property 1 (bold, blue underline,
\* subscript) was cloned into a superscript record and then a paragraph
\* property was synthesized from the Normal style's: both bases are what
\* the template gave and the clones differ from them.
C21_Witness ==
    /\ Len(hist) = 2
    /\ self.header_xml_content = FullHeader
    /\ hist[1].op = "char" /\ hist[1].charKey[1] = 1 /\ hist[1].newCharPr = 1
    /\ hist[2].op = "para" /\ hist[2].newParaPr = 1
    /\ find(self.header_root.charPr, "1") = Some(FullHeader.charPr[2])
    /\ self.header_root.charPr[4].supscript
    /\ ~self.header_root.charPr[4].subscript
    /\ FullHeader.charPr[2].subscript
    /\ find(self.header_root.paraPr, "3") = Some(FullHeader.paraPr[2])
    /\ self.header_root.paraPr[4].caseMargin # FullHeader.paraPr[2].caseMargin

\* What a logged call returns, and the converter it leaves, when it is made
\* on the converter s.
Redo(s, call) ==
    IF call.op = "char"
    THEN [self |-> get_or_create_char_pr(s, call.charKey[1], call.charKey[2], call.charKey[3], call.charKey[4]).self,
          ret |-> get_or_create_char_pr(s, call.charKey[1], call.charKey[2], call.charKey[3], call.charKey[4]).ret,
          out |-> <<>>, raised |-> FALSE]
    ELSE IF call.op = "para"
    THEN [self |-> get_or_create_para_pr(s, call.paraKey[1], call.paraKey[2]).self,
          ret |-> get_or_create_para_pr(s, call.paraKey[1], call.paraKey[2]).ret,
          out |-> <<>>, raised |-> FALSE]
    ELSE [self |-> process_blocks(s, call.input).self, ret |-> "",
          out |-> process_blocks(s, call.input).out,
          raised |-> process_blocks(s, call.input).raised]

\* The converter after the first n calls of a log were made, alone, on a
\* converter constructed on the template.
RECURSIVE Alone(_, _, _)
Alone(header, calls, n) ==
    IF n = 0 THEN NewConverter(header)
    ELSE Redo(Alone(header, calls, n - 1), calls[n]).self

\* Every call of the log returned what it returns in the run without the
\* other converter, and the converter ended in the same state.
AsIfAlone(conv, calls) ==
    /\ conv = Alone(conv.header_xml_content, calls, Len(calls))
    /\ \A n \in DOMAIN calls :
          /\ calls[n].ret = Redo(Alone(conv.header_xml_content, calls, n - 1), calls[n]).ret
          /\ calls[n].out = Redo(Alone(conv.header_xml_content, calls, n - 1), calls[n]).out
          /\ calls[n].raised = Redo(Alone(conv.header_xml_content, calls, n - 1), calls[n]).raised

RECURSIVE SectionRows(_, _)
SectionRows(bodies, n) ==
    IF n = 0 THEN <<>>
    ELSE SectionRows(bodies, n - 1) \o bodies[n].inter_headers \o bodies[n].main_rows

OrderedRows(table) ==
    table.head \o SectionRows(table.bodies, Len(table.bodies)) \o table.foot

\* For the first n rows of a sequence, in order, the mark and the 0-based
\* index of every row that holds a cell.
RECURSIVE MarkedAddrs(_, _)
MarkedAddrs(rows, n) ==
    IF n = 0 THEN <<>>
    ELSE MarkedAddrs(rows, n - 1)
         \o (IF rows[n] = <<>> THEN <<>>
             ELSE <<<<Len(rows[n][1].blocks[1].c), n - 1>>>>)

\* The mark and the row address of every emitted cell, in markup order.
EmittedAddrs(tbl) ==
    [i \in DOMAIN tbl.cells |-> <<Len(tbl.cells[i].content[1].runs), tbl.cells[i].rowAddr>>]

\* C23: the rows are emitted in the order head, each body's intermediate
\* headers then its main rows, foot; the i-th row of that sequence has row
\* address i (from 0); rowCnt is the length of the sequence; a table
\* without rows gives no markup and leaves the converter as it was.
C23_FlatteningOrder ==
    Last.op = "table"
    => IF OrderedRows(Last.input) = <<>>
       THEN Last.out = <<>> /\ ~Last.raised /\ self = pre
       ELSE ~Last.raised
            => /\ Len(Last.out) = 1
               /\ Last.out[1].rowCnt = Len(OrderedRows(Last.input))
               /\ EmittedAddrs(Last.out[1]) = MarkedAddrs(OrderedRows(Last.input), Len(OrderedRows(Last.input)))

\* A table with an empty and a marked head row, two bodies with an
\* intermediate header and a main row each, and a foot row: seven rows,
\* the cells at row addresses 1 to 6 in the order head, header 1, main 1,
\* header 2, main 2, foot.
C23_Witness ==
    /\ Last.op = "table" /\ ~Last.raised
    /\ Len(Last.input.head) = 2 /\ Len(Last.input.bodies) = 2
    /\ Last.out # <<>>
    /\ Last.out[1].rowCnt = 7
    /\ EmittedAddrs(Last.out[1])
         = << <<1, 1>>, <<3, 2>>, <<5, 3>>, <<4, 4>>, <<5 + MaxRows, 5>>,
              <<2, 6>> >>

\* The width of one declared column: floor(45000 / declared columns).
ColumnShare(table) == TOTAL_TABLE_WIDTH \div Len(table.specs)

\* Every emitted cell is as wide as the columns it spans, each of them,
\* declared or beyond the declared count, counting one share.
SpannedWidths(table, tbl) ==
    \A i \in DOMAIN tbl.cells :
        tbl.cells[i].width = tbl.cells[i].colSpan * ColumnShare(table)

\* The table of the last call has at least one row.
HasRow == Last.op = "table" /\ flatten_rows(Last.input) # <<>>

\* The widths of the cells of a table that was rendered.
C24_WidthsWhenRendered ==
    (HasRow /\ ~Last.raised) => SpannedWidths(Last.input, Last.out[1])

\* C24: for every table with at least one row the widths are computed
\* (the rendering does not raise), every column counts
\* floor(45000 / declared columns) whatever its width hint, and every cell
\* is as wide as the sum over the columns it spans, a column at or beyond
\* the declared count counting the same share.
C24_WidthDefined ==
    HasRow => ~Last.raised /\ SpannedWidths(Last.input, Last.out[1])

\* A table that declares no column and has one row with one cell: the
\* rendering raises after the border fill was appended.
C24_Witness ==
    /\ HasRow
    /\ Last.input.specs = <<>>
    /\ Last.input.bodies[1].main_rows = <<<<Cell(1, 1, <<>>)>>>>
    /\ Last.raised
    /\ Last.newBorderFill = 1

\* A table with one declared column whose second row starts beside a
\* two-row cell and spans two columns beyond the declared one: 45000 for
\* the first cell, 90000 for the second.
C24_BeyondDeclared ==
    /\ HasRow /\ ~Last.raised
    /\ Len(Last.input.specs) = 1
    /\ Len(Last.out[1].cells) = 2
    /\ Last.out[1].cells[2].colAddr = 1 /\ Last.out[1].cells[2].colSpan = 2
    /\ Last.out[1].cells[2].width = 90000

\* The anchor of an emitted cell.
Anchor(tc) == <<tc.rowAddr, tc.colAddr>>

\* The anchors of the cells of a table, in markup order.
Anchors(tbl) == [i \in DOMAIN tbl.cells |-> Anchor(tbl.cells[i])]

\* No two cells of the table have the same anchor.
AnchorsUnique(tbl) ==
    \A i, j \in DOMAIN tbl.cells :
        Anchor(tbl.cells[i]) = Anchor(tbl.cells[j]) => i = j

\* Every cell is anchored outside the positions marked by the cells placed
\* before it.
AnchoredFree(tbl) ==
    \A i, j \in DOMAIN tbl.cells :
        i < j => Anchor(tbl.cells[j]) \notin Footprint(tbl.cells[i])

\* The occupancy set at the end of the walk holds every position marked by
\* a cell of this table and no other position.
OccupancyOwn(tbl) ==
    tbl.occupied_cells = UNION {Footprint(tbl.cells[i]) : i \in DOMAIN tbl.cells}

\* The tables rendered inside the cells of a table.
InnerTbls(tbl) ==
    {tbl.cells[i].content[1] :
        i \in {j \in DOMAIN tbl.cells : tbl.cells[j].content # <<>>}}

\* The outer table as it is laid out when its first cell is empty.
WithoutNested == handle_table(pre, WithFirstCell(Last.input, <<>>)).out[1]

\* The last call rendered a table with a table in its first cell.
NestedRendered == Last.op = "table" /\ ~Last.raised /\ Last.out # <<>>

\* C25: in every table, outer or nested, no two cells share an anchor,
\* each cell is anchored at a position that no earlier cell had marked,
\* and the occupancy set ends as exactly the positions its own cells
\* marked; the table nested in a cell changes neither the anchors nor the
\* occupancy set of the outer table.
C25_AnchorsAndOccupancy ==
    NestedRendered
    => /\ \A tbl \in {Last.out[1]} \cup InnerTbls(Last.out[1]) :
              AnchorsUnique(tbl) /\ AnchoredFree(tbl) /\ OccupancyOwn(tbl)
       /\ Anchors(Last.out[1]) = Anchors(WithoutNested)
       /\ Last.out[1].occupied_cells = WithoutNested.occupied_cells

\* The first cell of the outer table holds a table whose first cell spans
\* two rows and two columns; the outer table's second cell sits at column 1
\* and its second row starts at column 0, positions the nested table marked
\* in its own set.
C25_Witness ==
    /\ NestedRendered
    /\ Cardinality(InnerTbls(Last.out[1])) = 1
    /\ Len(Last.out[1].cells) = 3
    /\ Anchors(Last.out[1]) = << <<0, 0>>, <<0, 1>>, <<1, 0>> >>
    /\ \E tbl \in InnerTbls(Last.out[1]) :
          /\ {<<0, 0>>, <<0, 1>>, <<1, 0>>, <<1, 1>>} \subseteq tbl.occupied_cells
          /\ tbl.occupied_cells # Last.out[1].occupied_cells

\* ------------------------------------------------------------------------
\* C26: cache stability.

\* The ids of the records of a collection that were not in the template.
SynthesizedIds(coll) ==
    {Synthesized(coll)[i].id : i \in DOMAIN Synthesized(coll)}

\* Every value of the cache is an id allocated by the resolver of the
\* collection: above every template id and at most the counter.
Allocated(cache, coll, counter) ==
    /\ AboveTemplate({int(cache[k]) : k \in DOMAIN cache}, coll)
    /\ \A k \in DOMAIN cache : int(cache[k]) <= counter

\* Every key the cache held before the last call is still mapped, to the
\* same id.
Kept(before, after) ==
    \A k \in DOMAIN before : k \in DOMAIN after /\ after[k] = before[k]

\* The counter went up by as many as the cache gained entries.
CountedByMisses(counterBefore, counterAfter, before, after) ==
    counterAfter - counterBefore
        = Cardinality(DOMAIN after) - Cardinality(DOMAIN before)

\* A direct resolve call that raised the counter was a miss on its key and
\* left the key mapped to the id it returned.
MissInserted(counterBefore, counterAfter, before, after, key) ==
    counterAfter > counterBefore
        => key \notin DOMAIN before /\ key \in DOMAIN after
           /\ after[key] = Last.ret

\* What holds of both caches whether or not the template has containers.
CachesStable ==
    /\ Allocated(self.char_pr_cache, "charPr", self.max_char_pr_id)
    /\ Allocated(self.para_pr_cache, "paraPr", self.max_para_pr_id)
    /\ Kept(pre.char_pr_cache, self.char_pr_cache)
    /\ Kept(pre.para_pr_cache, self.para_pr_cache)
    /\ CountedByMisses(pre.max_char_pr_id, self.max_char_pr_id,
                       pre.char_pr_cache, self.char_pr_cache)
    /\ CountedByMisses(pre.max_para_pr_id, self.max_para_pr_id,
                       pre.para_pr_cache, self.para_pr_cache)
    /\ Last.op = "char"
         => MissInserted(pre.max_char_pr_id, self.max_char_pr_id,
                         pre.char_pr_cache, self.char_pr_cache,
                         <<str(Last.charKey[1]), Last.charKey[2],
                           Last.charKey[3], Last.charKey[4]>>)
    /\ Last.op = "para"
         => MissInserted(pre.max_para_pr_id, self.max_para_pr_id,
                         pre.para_pr_cache, self.para_pr_cache,
                         <<to_hwpunit(Last.paraKey[1]),
                           to_hwpunit(Last.paraKey[2])>>)

\* Every cached id is the id of a record appended to its collection.
CachedAppended ==
    /\ \A k \in DOMAIN self.char_pr_cache :
           self.char_pr_cache[k] \in SynthesizedIds("charPr")
    /\ \A k \in DOMAIN self.para_pr_cache :
           self.para_pr_cache[k] \in SynthesizedIds("paraPr")

\* C26, as stated: in every reachable state each entry of the character-
\* property cache and of the paragraph-property cache maps its key to an id
\* allocated by that resolver (above the template maximum) that was appended
\* to the collection; a mapped key keeps its value and no entry is removed;
\* a counter goes up only in a cache miss that inserts a new cache entry.
C26_CachedIdsAppended == CachesStable /\ CachedAppended

\* C26, amended: each cache entry maps its key to an id allocated by that
\* resolver, above the template maximum; a mapped key keeps its value and no
\* entry is removed; a counter goes up only in a cache miss that inserts a
\* new cache entry.  The cached id is the id of a record appended to the
\* collection when the header has the collection's container; when the
\* container is missing the id is cached and returned all the same but no
\* record is appended.
C26_CacheStability ==
    /\ CachesStable
    /\ \A k \in DOMAIN self.char_pr_cache :
           IF self.header_root.charProperties
           THEN self.char_pr_cache[k] \in SynthesizedIds("charPr")
           ELSE Synthesized("charPr") = <<>>
    /\ \A k \in DOMAIN self.para_pr_cache :
           IF self.header_root.paraProperties
           THEN self.para_pr_cache[k] \in SynthesizedIds("paraPr")
           ELSE Synthesized("paraPr") = <<>>

\* On a template with both containers two entries were cached and the
\* last resolve call hit the cache: it returned the id of an appended
\* record, no counter moved and every entry is as it was.
C26_Witness ==
    /\ self.header_root.charProperties /\ self.header_root.paraProperties
    /\ Cardinality(DOMAIN self.para_pr_cache)
         + Cardinality(DOMAIN self.char_pr_cache) >= 2
    /\ Last.op \in {"char", "para"}
    /\ Last.ret \in SynthesizedIds("charPr") \cup SynthesizedIds("paraPr")
    /\ self.max_char_pr_id = pre.max_char_pr_id
    /\ self.max_para_pr_id = pre.max_para_pr_id
    /\ self.char_pr_cache = pre.char_pr_cache
    /\ self.para_pr_cache = pre.para_pr_cache

\* On the template without containers an id is cached that no record of
\* the collection carries.
C26_CachedNotAppended ==
    /\ ~self.header_root.paraProperties
    /\ \E k \in DOMAIN self.para_pr_cache :
           self.para_pr_cache[k] \notin SynthesizedIds("paraPr")
    /\ self.max_para_pr_id > pre.max_para_pr_id

====
